---------------------------- MODULE Spec2Model ----------------------------
(***************************************************************************)
(* Expression pipeline of car-inside: the label stabilizer                 *)
(* (logic/smoother.ts), the detection loop (vision/runLoop.ts) and the     *)
(* per-cycle handler onResult of App.                                      *)
(*                                                                         *)
(* Times are integer milliseconds.                                         *)
(***************************************************************************)
EXTENDS Integers, Sequences, FiniteSets, TLC

VARIABLES
    labelStabilizer,  \* App.labelStabilizerRef.current : a LabelStabilizer
    call,             \* the last LabelStabilizer call: its arguments and result
    run,              \* history: the current run of identical update labels
    alt,              \* history: does the whole update stream alternate
    stopped,          \* startFaceLoop: let stopped
    timeoutId,        \* startFaceLoop: let timeoutId (NoTimer or a timer id)
    timers,           \* window: the pending timers that call this loop's tick
    nextTimerId,      \* window: the id the next setTimeout returns
    pc,               \* where the thread is inside tick ("idle": outside it)
    loopLog,          \* history: calls made by the loop, calls of stop
    now,              \* performance.now() at the last cycle
    videoTime,        \* video.currentTime at the last cycle
    app,              \* App: the refs and React state the cycle handler uses
    cycle,            \* history: the last cycle, its inputs and what it ran
    calc,             \* the last call of a pure function: arguments, result
    twin,             \* a second run of the handler on the same inputs
    mount             \* App's mount: started, the refs of the loop, the loops

stabVars == <<labelStabilizer, call, run, alt>>
loopVars == <<stopped, timeoutId, timers, nextTimerId, pc, loopLog>>
appVars == <<now, videoTime, app, cycle, calc, twin, mount>>
vars == <<labelStabilizer, call, run, alt,
          stopped, timeoutId, timers, nextTimerId, pc, loopLog,
          now, videoTime, app, cycle, calc, twin, mount>>

Null == "null"
\* `timeoutId: number | null = null`: the null of a timer id (ids start at 1)
NoTimer == 0

(***************************************************************************)
(* Bounds of the model.                                                    *)
(***************************************************************************)
\* timestamps handed to LabelStabilizer.update are k * StabStepMs, k <= MaxStabTick
MaxStabTick == 4
\* pendingFrames is not bounded by the code; the model stops counting here
MaxFrames == 7

StabStepMs == 300

Min(a, b) == IF a < b THEN a ELSE b
Max(a, b) == IF a > b THEN a ELSE b

(***************************************************************************)
(* logic/smoother.ts : LabelStabilizer                                     *)
(***************************************************************************)
ExpressionLabel == {"NEUTRAL", "SMILE", "SCREAM", "SQUINT", "FREAKY"}

DefaultStableFrames == 4
DefaultCooldownMs == 500

\* constructor(initial, stableFrames = 4, cooldownMs = 500)
LabelStabilizer(initial, stableFrames, cooldownMs) ==
    [ current       |-> initial,
      pending       |-> Null,
      pendingFrames |-> 0,
      lastSwitchAt  |-> 0,
      stableFrames  |-> stableFrames,
      cooldownMs    |-> cooldownMs ]

\* a plausible slip: the cooldown test left out of the commit condition
UpdateNoCooldown(s, label, nowMs) ==
    IF label = s.current
    THEN [s EXCEPT !.pending = Null, !.pendingFrames = 0]
    ELSE IF label # s.pending
    THEN [s EXCEPT !.pending = label, !.pendingFrames = 1]
    ELSE IF s.pendingFrames + 1 >= s.stableFrames
         THEN [s EXCEPT !.current = label, !.pending = Null,
                        !.pendingFrames = 0, !.lastSwitchAt = nowMs]
         ELSE [s EXCEPT !.pendingFrames = s.pendingFrames + 1]

\* a plausible slip: > instead of >= on the frame count
UpdateOffByOne(s, label, nowMs) ==
    IF label = s.current
    THEN [s EXCEPT !.pending = Null, !.pendingFrames = 0]
    ELSE IF label # s.pending
    THEN [s EXCEPT !.pending = label, !.pendingFrames = 1]
    ELSE IF /\ s.pendingFrames + 1 > s.stableFrames
            /\ nowMs - s.lastSwitchAt >= s.cooldownMs
         THEN [s EXCEPT !.current = label, !.pending = Null,
                        !.pendingFrames = 0, !.lastSwitchAt = nowMs]
         ELSE [s EXCEPT !.pendingFrames = s.pendingFrames + 1]

\* a plausible slip: the frame count is not restarted when the candidate changes
UpdateNoPendingReset(s, label, nowMs) ==
    IF label = s.current
    THEN [s EXCEPT !.pending = Null, !.pendingFrames = 0]
    ELSE IF /\ s.pendingFrames + 1 >= s.stableFrames
            /\ nowMs - s.lastSwitchAt >= s.cooldownMs
         THEN [s EXCEPT !.current = label, !.pending = Null,
                        !.pendingFrames = 0, !.lastSwitchAt = nowMs]
         ELSE [s EXCEPT !.pending = label,
                        !.pendingFrames = s.pendingFrames + 1]

\* a plausible slip: the candidate survives an update that repeats `current`
UpdateKeepsPending(s, label, nowMs) ==
    IF label = s.current
    THEN s
    ELSE IF label # s.pending
    THEN [s EXCEPT !.pending = label, !.pendingFrames = 1]
    ELSE IF /\ s.pendingFrames + 1 >= s.stableFrames
            /\ nowMs - s.lastSwitchAt >= s.cooldownMs
         THEN [s EXCEPT !.current = label, !.pending = Null,
                        !.pendingFrames = 0, !.lastSwitchAt = nowMs]
         ELSE [s EXCEPT !.pendingFrames = s.pendingFrames + 1]

\* a plausible slip: a commit that leaves the candidate in place
UpdateCommitKeepsPending(s, label, nowMs) ==
    IF label = s.current
    THEN [s EXCEPT !.pending = Null, !.pendingFrames = 0]
    ELSE IF label # s.pending
    THEN [s EXCEPT !.pending = label, !.pendingFrames = 1]
    ELSE IF /\ s.pendingFrames + 1 >= s.stableFrames
            /\ nowMs - s.lastSwitchAt >= s.cooldownMs
         THEN [s EXCEPT !.current = label,
                        !.pendingFrames = s.pendingFrames + 1,
                        !.lastSwitchAt = nowMs]
         ELSE [s EXCEPT !.pendingFrames = s.pendingFrames + 1]

\* a plausible slip: a candidate that is stable before the cooldown has
\* passed is dropped
UpdateDropsEarlyCandidate(s, label, nowMs) ==
    IF label = s.current
    THEN [s EXCEPT !.pending = Null, !.pendingFrames = 0]
    ELSE IF label # s.pending
    THEN [s EXCEPT !.pending = label, !.pendingFrames = 1]
    ELSE IF s.pendingFrames + 1 >= s.stableFrames
         THEN IF nowMs - s.lastSwitchAt >= s.cooldownMs
              THEN [s EXCEPT !.current = label, !.pending = Null,
                             !.pendingFrames = 0, !.lastSwitchAt = nowMs]
              ELSE [s EXCEPT !.pending = Null, !.pendingFrames = 0]
         ELSE [s EXCEPT !.pendingFrames = s.pendingFrames + 1]

\* a plausible slip: the cooldown counted from the time origin, not from
\* the last switch
UpdateCooldownFromZero(s, label, nowMs) ==
    IF label = s.current
    THEN [s EXCEPT !.pending = Null, !.pendingFrames = 0]
    ELSE IF label # s.pending
    THEN [s EXCEPT !.pending = label, !.pendingFrames = 1]
    ELSE IF /\ s.pendingFrames + 1 >= s.stableFrames
            /\ nowMs >= s.cooldownMs
         THEN [s EXCEPT !.current = label, !.pending = Null,
                        !.pendingFrames = 0, !.lastSwitchAt = nowMs]
         ELSE [s EXCEPT !.pendingFrames = s.pendingFrames + 1]

\* update(label, nowMs): the stabilizer after the call; the call returns
\* this.current as it is after the call (every return is `return this.current`)
Update(s, label, nowMs) ==
    IF label = s.current
    THEN [s EXCEPT !.pending = Null, !.pendingFrames = 0]
    ELSE IF label # s.pending
    THEN [s EXCEPT !.pending = label, !.pendingFrames = 1]
    ELSE IF /\ s.pendingFrames + 1 >= s.stableFrames
            /\ nowMs - s.lastSwitchAt >= s.cooldownMs
         THEN [s EXCEPT !.current = label, !.pending = Null,
                        !.pendingFrames = 0, !.lastSwitchAt = nowMs]
         ELSE [s EXCEPT !.pendingFrames = s.pendingFrames + 1]

\* getCurrent()
GetCurrent(s) == s.current

AppStableFrames == 5
AppCooldownMs == 600
\* the smallest stableFrames the stand-alone stabilizer is constructed with
SmallStableFrames == 2


\* the history variables of a stabilizer nobody has called yet
\* (switched, switchedAt: has an update changed `current`, and the nowMs of
\* the last one that did)
NoCall ==
    [op |-> "none", label |-> Null, nowMs |-> 0, ret |-> Null,
     switched |-> FALSE, switchedAt |-> 0]
NoRun == [label |-> Null, len |-> 0, startCurrent |-> Null, ok |-> TRUE]
NoAlt == [ok |-> TRUE, a |-> Null, c |-> Null, last |-> Null, n |-> 0]
BrokenAlt == [ok |-> FALSE, a |-> Null, c |-> Null, last |-> Null, n |-> 0]

\* no loop has been started
NoLoop ==
    /\ stopped = FALSE
    /\ timeoutId = NoTimer
    /\ timers = {}
    /\ nextTimerId = 1
    /\ pc = "idle"
    /\ loopLog = [detectCalls |-> 0, resultCalls |-> 0, stopCalls |-> 0,
                  stopAt |-> "never", firedAfterStop |-> 0]

(***************************************************************************)
(* Numbers.  Signals, blendshape scores and landmark coordinates are       *)
(* fixed-point integers in thousandths (0.25 is 250); products with the    *)
(* code's two-decimal factors are compared in hundred-thousandths, so the  *)
(* threshold tests are exact.                                              *)
(***************************************************************************)
\* `number | null` timestamps: the null
NullTime == -1
\* `number | null` of a signal value or score: the null
NoValue == -1

SignalKeys == {"faceW", "mouthOpen", "smile", "eyeOpen"}
Signals(faceW, mouthOpen, smile, eyeOpen) ==
    [faceW |-> faceW, mouthOpen |-> mouthOpen, smile |-> smile,
     eyeOpen |-> eyeOpen]
\* `ExpressionSignals | null`: the null
NullSignals == Signals(NoValue, NoValue, NoValue, NoValue)

(***************************************************************************)
(* logic/smoother.ts : EmaSmoother, SignalSmoother                         *)
(***************************************************************************)
\* a plausible slip: the weights of the new sample and of the state exchanged
EmaUpdateSwapped(alpha, value, next) ==
    IF value = NoValue
    THEN next
    ELSE (alpha * value + (1000 - alpha) * next) \div 1000

\* EmaSmoother.update(next) on a smoother whose value is `value`
EmaUpdate(alpha, value, next) ==
    IF value = NoValue
    THEN next
    ELSE (alpha * next + (1000 - alpha) * value) \div 1000

\* new SignalSmoother(alpha): no key has a smoother yet.  A key without a
\* smoother and a smoother that was never updated behave alike (a smoother is
\* updated in the statement after its creation), so both are NoValue.
SignalSmoother(alpha) ==
    [alpha |-> alpha, smoothers |-> [k \in SignalKeys |-> NoValue]]

\* SignalSmoother.update(signals): the smoother after the call; only the
\* keys of `signals` are visited
SmootherAfter(sm, signals) ==
    [sm EXCEPT !.smoothers =
        [k \in SignalKeys |->
            IF k \in DOMAIN signals
            THEN EmaUpdate(sm.alpha, sm.smoothers[k], signals[k])
            ELSE sm.smoothers[k]]]

\* a plausible slip: one EmaSmoother, the mouthOpen one, updated for every key
SmootherOutputOneSmoother(sm, signals) ==
    [k \in DOMAIN signals |->
        EmaUpdate(sm.alpha, sm.smoothers.mouthOpen, signals[k])]

\* SignalSmoother.update(signals): the vector it returns, a copy of
\* `signals` with every key's value replaced by its smoother's output
SmootherOutput(sm, signals) ==
    [k \in DOMAIN signals |->
        EmaUpdate(sm.alpha, sm.smoothers[k], signals[k])]

(***************************************************************************)
(* logic/expression.ts (in src/src/memes/preloadMemes.ts, lines 97-265)    *)
(***************************************************************************)
\* the landmark indices computeSignals reads (IDX, less the unused cheeks)
IdxUsed == {33, 263, 1, 152, 61, 291, 13, 14, 133, 362, 159, 145, 386, 374}

Point(x, y) == [x |-> x, y |-> y]

RECURSIVE SqrtSearch(_, _, _)
SqrtSearch(n, lo, hi) ==
    IF lo >= hi THEN lo
    ELSE LET mid == (lo + hi + 1) \div 2
         IN  IF mid * mid <= n
             THEN SqrtSearch(n, mid, hi)
             ELSE SqrtSearch(n, lo, mid - 1)

\* floor of the square root (46340 is the largest root of a 32-bit number)
Isqrt(n) == SqrtSearch(n, 0, Min(n, 46340))

\* dist2D(a, b) = Math.hypot(a.x - b.x, a.y - b.y)
Dist2D(a, b) ==
    Isqrt((a.x - b.x) * (a.x - b.x) + (a.y - b.y) * (a.y - b.y))

\* num / Math.max(den, 1e-6), in thousandths: a zero distance is floored at
\* 1e-6, which is a thousandth of the model's unit
RatioFloored(num, den) ==
    IF den = 0 THEN num * 1000000 ELSE (num * 1000) \div den

\* computeSignals reads landmarks[i].x for each index of IdxUsed: for a list
\* without one of them that is a property read of undefined, a TypeError
ComputeSignalsThrows(landmarks) == ~(IdxUsed \subseteq DOMAIN landmarks)

\* computeSignals(landmarks), for a list that holds every index of IdxUsed
\* (mouthWidth is floored too, so two zero distances give a smile of 1)
ComputeSignals(landmarks) ==
    LET faceW == Dist2D(landmarks[33], landmarks[263])
        faceH == Dist2D(landmarks[1], landmarks[152])
        mouthWidth == Dist2D(landmarks[61], landmarks[291])
        mouthOpen == RatioFloored(Dist2D(landmarks[13], landmarks[14]), faceH)
        smile == IF mouthWidth = 0 /\ faceW = 0
                 THEN 1000
                 ELSE RatioFloored(mouthWidth, faceW)
        leftEyeWidth == Dist2D(landmarks[33], landmarks[133])
        rightEyeWidth == Dist2D(landmarks[362], landmarks[263])
        leftEyeOpen ==
            RatioFloored(Dist2D(landmarks[159], landmarks[145]), leftEyeWidth)
        rightEyeOpen ==
            RatioFloored(Dist2D(landmarks[386], landmarks[374]), rightEyeWidth)
    IN  Signals(faceW, mouthOpen, smile, (leftEyeOpen + rightEyeOpen) \div 2)

\* a blendshape category list is a sequence of [categoryName, score]
Category(name, score) == [categoryName |-> name, score |-> score]

\* getScore(categories, name) ?? 0 : the first entry of that name, else 0
GetScoreOr0(categories, name) ==
    LET hits == {i \in 1..Len(categories) : categories[i].categoryName = name}
    IN  IF hits = {} THEN 0
        ELSE categories[CHOOSE i \in hits : \A j \in hits : i <= j].score

\* `!categories || categories.length === 0`; an absent list is the empty one
NoCategories(categories) == Len(categories) = 0

\* getBlendshapeDebug(categories), defined when ~NoCategories(categories)
GetBlendshapeDebug(categories) ==
    [ jawOpen     |-> GetScoreOr0(categories, "jawOpen"),
      mouthFunnel |-> GetScoreOr0(categories, "mouthFunnel"),
      mouthSmile  |-> (GetScoreOr0(categories, "mouthSmileLeft")
                         + GetScoreOr0(categories, "mouthSmileRight")) \div 2,
      eyeSquint   |-> (GetScoreOr0(categories, "eyeSquintLeft")
                         + GetScoreOr0(categories, "eyeSquintRight")) \div 2 ]

\* computeBlendshapeSignals(categories), defined when ~NoCategories(categories)
ComputeBlendshapeSignals(categories) ==
    LET jawOpen == GetScoreOr0(categories, "jawOpen")
        mouthFunnel == GetScoreOr0(categories, "mouthFunnel")
        smileSum == GetScoreOr0(categories, "mouthSmileLeft")
                      + GetScoreOr0(categories, "mouthSmileRight")
        squintSum == GetScoreOr0(categories, "eyeSquintLeft")
                       + GetScoreOr0(categories, "eyeSquintRight")
    IN  Signals(1000,
                Min(1000, jawOpen + mouthFunnel \div 2),
                Min(1000, smileSum \div 2),
                Max(0, 1000 - squintSum \div 2))

\* the fields App reads from getBlendshapeDebug's result that the version of
\* expression.ts at hand does not return
BlendTongueOut(categories) == GetScoreOr0(categories, "tongueOut")
BlendMouthUpperUp(categories) ==
    (GetScoreOr0(categories, "mouthUpperUpLeft")
       + GetScoreOr0(categories, "mouthUpperUpRight")) \div 2

Thresholds(mouthOpenScream, smile, mouthOpenSmileMax, eyeOpenSquint) ==
    [mouthOpenScream |-> mouthOpenScream, smile |-> smile,
     mouthOpenSmileMax |-> mouthOpenSmileMax, eyeOpenSquint |-> eyeOpenSquint]

\* the default value of the thresholds parameter, lines 236-241
DefaultThresholds == Thresholds(280, 620, 180, 120)

\* a plausible slip: the squint test placed before the smile test
ClassifySquintFirst(signals, thresholds) ==
    IF signals.mouthOpen > thresholds.mouthOpenScream THEN "SCREAM"
    ELSE IF signals.eyeOpen < thresholds.eyeOpenSquint THEN "SQUINT"
    ELSE IF /\ signals.smile > thresholds.smile
            /\ signals.mouthOpen < thresholds.mouthOpenSmileMax
    THEN "SMILE"
    ELSE "NEUTRAL"

\* classifyExpression(signals, thresholds)
ClassifyExpression(signals, thresholds) ==
    LET screamTriggered ==
            IF thresholds.mouthOpenScream < 0
            THEN signals.mouthOpen < thresholds.mouthOpenScream
            ELSE signals.mouthOpen > thresholds.mouthOpenScream
        smileTriggered ==
            IF thresholds.smile < 0
            THEN signals.smile < thresholds.smile
            ELSE signals.smile > thresholds.smile
        mouthOk ==
            IF thresholds.mouthOpenSmileMax < 0
            THEN signals.mouthOpen > thresholds.mouthOpenSmileMax
            ELSE signals.mouthOpen < thresholds.mouthOpenSmileMax
        squintTriggered ==
            IF thresholds.eyeOpenSquint < 0
            THEN signals.eyeOpen < thresholds.eyeOpenSquint
            ELSE signals.eyeOpen < thresholds.eyeOpenSquint
    IN  IF screamTriggered THEN "SCREAM"
        ELSE IF smileTriggered /\ mouthOk THEN "SMILE"
        ELSE IF squintTriggered THEN "SQUINT"
        ELSE "NEUTRAL"

(***************************************************************************)
(* logic/mapToMeme.ts                                                      *)
(***************************************************************************)
MapExpressionToMeme(label) ==
    CASE label = "FREAKY" -> "freaky"
      [] label = "SCREAM" -> "scream"
      [] label = "SMILE"  -> "smile"
      [] label = "SQUINT" -> "judging"
      [] OTHER            -> "neutral"

(***************************************************************************)
(* App.tsx (in src/src/vision/faceLandmarker.ts, lines 667-1439)           *)
(***************************************************************************)
\* classifyFromRanges(signals, min, max); the products with 0.7, 0.75, 0.6,
\* 0.4, 0.08 and 0.5 are taken times 100 on both sides of each comparison

\* a plausible slip: the floor of the ranges a digit too small
RangesTooSmallTypo(mouthRange, smileRange, eyeRange) ==
    mouthRange < 5 /\ smileRange < 5 /\ eyeRange < 5

\* line 764
RangesTooSmall(mouthRange, smileRange, eyeRange) ==
    mouthRange < 50 /\ smileRange < 50 /\ eyeRange < 50

\* a plausible slip: the margins left out of the tests
RangeTestsNoMargin(min, max) ==
    LET mouthRange == max.mouthOpen - min.mouthOpen
        smileRange == max.smile - min.smile
        eyeRange == max.eyeOpen - min.eyeOpen
    IN  [ scream |-> 100 * min.mouthOpen + 70 * mouthRange,
          smile |-> 100 * min.smile + 75 * smileRange,
          smileMouthMax |-> 100 * min.mouthOpen + 60 * mouthRange,
          squint2 |-> 2 * (100 * min.eyeOpen + 40 * eyeRange) ]

\* lines 769-783: what each signal is compared with, times 100 (the squint
\* bound, squintT - eyeMargin * 0.5, times 200)
RangeTests(min, max) ==
    LET mouthRange == max.mouthOpen - min.mouthOpen
        smileRange == max.smile - min.smile
        eyeRange == max.eyeOpen - min.eyeOpen
        screamT == 100 * min.mouthOpen + 70 * mouthRange
        smileT == 100 * min.smile + 75 * smileRange
        smileMouthMax == 100 * min.mouthOpen + 60 * mouthRange
        squintT == 100 * min.eyeOpen + 40 * eyeRange
        mouthMargin == 8 * mouthRange
        smileMargin == 8 * smileRange
        eyeMargin == 8 * eyeRange
    IN  [ scream |-> screamT + mouthMargin,
          smile |-> smileT + smileMargin,
          smileMouthMax |-> smileMouthMax,
          squint2 |-> 2 * squintT - eyeMargin ]

ClassifyFromRanges(signals, min, max) ==
    LET t == RangeTests(min, max)
    IN  IF RangesTooSmall(max.mouthOpen - min.mouthOpen,
                          max.smile - min.smile,
                          max.eyeOpen - min.eyeOpen)
        THEN "NEUTRAL"
        ELSE IF 100 * signals.mouthOpen > t.scream
        THEN "SCREAM"
        ELSE IF /\ 100 * signals.smile > t.smile
                /\ 100 * signals.mouthOpen < t.smileMouthMax
        THEN "SMILE"
        ELSE IF /\ 200 * signals.eyeOpen < t.squint2
                /\ 100 * signals.mouthOpen < t.smileMouthMax
        THEN "SQUINT"
        ELSE "NEUTRAL"

FACE_HOLD_MS == 500
StallMs == 600
TongueHoldMs == 700
CalibrationFrames == 15
SmootherAlpha == 250

\* the thresholds object of the blendshape branch, lines 1146-1152
BlendThresholds == Thresholds(200, 200, 250, 500)

\* new LabelStabilizer("NEUTRAL", 5, 600), lines 830-839
ResetLabelStabilizer ==
    LabelStabilizer("NEUTRAL", AppStableFrames, AppCooldownMs)

NoExtremes ==
    [ min |-> NullSignals, max |-> NullSignals,
      maxMouthOpen |-> NullSignals, minMouthOpen |-> NullSignals,
      maxSmile |-> NullSignals, minSmile |-> NullSignals,
      maxEyeOpen |-> NullSignals, minEyeOpen |-> NullSignals ]

\* the refs and state of App when it mounts, lines 789-868
AppMounted ==
    [ selectedKey      |-> "neutral",
      faceDetected     |-> FALSE,
      signalSource     |-> "landmarks",
      calibrated       |-> FALSE,
      lastDetectedAt   |-> NullTime,
      lastFaceState    |-> FALSE,
      lastVideoTime    |-> NullTime,
      lastVideoTimeAt  |-> 0,
      smoother         |-> SignalSmoother(SmootherAlpha),
      loopStarted      |-> FALSE,
      tongueHoldUntil  |-> 0,
      toothySmile      |-> FALSE,
      calibration      |-> [count |-> 0, baseline |-> Signals(1000, 0, 0, 0)],
      extremes         |-> NoExtremes ]

\* a detection result: faceLandmarks is a sequence of landmark lists (each a
\* function from index to point), faceBlendshapes a sequence of
\* [categories |-> category list]
Result(faceLandmarks, faceBlendshapes) ==
    [faceLandmarks |-> faceLandmarks, faceBlendshapes |-> faceBlendshapes]

\* what one cycle reads from outside: performance.now(), the video element,
\* the camera track, the detection result, getTongueConfidence's result
Input(nowMs, readyState, currentTime, track, result, tongueScore) ==
    [now |-> nowMs, readyState |-> readyState, currentTime |-> currentTime,
     track |-> track, result |-> result, tongueScore |-> tongueScore]

\* what the handler leaves behind: the App state, the stabilizer, how the
\* cycle ended, and which of smoother / classifier / stabilizer it ran
Outcome(a, stab, how, detected, source, rawLabel, ran) ==
    [app |-> a, stab |-> stab, how |-> how, detected |-> detected,
     source |-> source, rawLabel |-> rawLabel, ran |-> ran,
     \* filled in by a cycle that classifies: the vector handed to the
     \* smoother, the classifier called and its label, the landmark
     \* mouthOpen the tongue hold tested, whether the hold was armed
     raw |-> NullSignals, classifier |-> Null, classified |-> Null,
     mouthOpen |-> NoValue, armed |-> FALSE, proxy |-> FALSE]

\* a plausible slip: an early return that leaves the last-detected time
ForcedAbsentKeepsTimestamp(a, how) ==
    Outcome([a EXCEPT !.lastFaceState = FALSE,
                      !.faceDetected = FALSE,
                      !.selectedKey = "neutral"],
            ResetLabelStabilizer, how, FALSE, Null, Null, {})

\* the three early returns, lines 969-982, 989-1002 and 1010-1024
ForcedAbsent(a, how) ==
    Outcome([a EXCEPT !.lastDetectedAt = NullTime,
                      !.lastFaceState = FALSE,
                      !.faceDetected = FALSE,
                      !.selectedKey = "neutral"],
            ResetLabelStabilizer, how, FALSE, Null, Null, {})

\* lines 988-989: the video time is the one last seen, for more than 600 ms
Stalled(a, in) ==
    /\ a.lastVideoTime # NullTime
    /\ in.currentTime = a.lastVideoTime
    /\ in.now - a.lastVideoTimeAt > StallMs

\* lines 985-1006: the last seen video time and when it was first seen
TrackVideoTime(a, in) ==
    IF a.lastVideoTime = NullTime \/ in.currentTime # a.lastVideoTime
    THEN [a EXCEPT !.lastVideoTime = in.currentTime,
                   !.lastVideoTimeAt = in.now]
    ELSE a

\* a plausible slip: a hold window longer than the one documented
WithinHoldTooLong(lastDetectedAt, nowMs) ==
    /\ lastDetectedAt # NullTime
    /\ nowMs - lastDetectedAt < FACE_HOLD_MS + 200

\* lines 1032-1034
WithinHold(lastDetectedAt, nowMs) ==
    /\ lastDetectedAt # NullTime
    /\ nowMs - lastDetectedAt < FACE_HOLD_MS

\* a plausible slip: the running minimum replaced by the sample
FoldExtremesLastAsMin(ex, smooth) ==
    LET max0 == IF ex.max = NullSignals THEN smooth ELSE ex.max
    IN  [ex EXCEPT
            !.min = smooth,
            !.max = [k \in SignalKeys |-> IF max0[k] > smooth[k] THEN max0[k]
                                          ELSE smooth[k]]]

\* lines 1161-1187: the running min and max of the smoothed landmark signals
FoldExtremes(ex, smooth) ==
    LET min0 == IF ex.min = NullSignals THEN smooth ELSE ex.min
        max0 == IF ex.max = NullSignals THEN smooth ELSE ex.max
    IN  [ex EXCEPT
            !.min = [k \in SignalKeys |-> Min(min0[k], smooth[k])],
            !.max = [k \in SignalKeys |-> Max(max0[k], smooth[k])]]

\* lines 1227-1267: the vector at which each signal was at its extreme
FoldSnapshots(ex, smooth) ==
    [ex EXCEPT
        !.maxMouthOpen = IF @ = NullSignals \/ smooth.mouthOpen > @.mouthOpen
                         THEN smooth ELSE @,
        !.minMouthOpen = IF @ = NullSignals \/ smooth.mouthOpen < @.mouthOpen
                         THEN smooth ELSE @,
        !.maxSmile = IF @ = NullSignals \/ smooth.smile > @.smile
                     THEN smooth ELSE @,
        !.minSmile = IF @ = NullSignals \/ smooth.smile < @.smile
                     THEN smooth ELSE @,
        !.maxEyeOpen = IF @ = NullSignals \/ smooth.eyeOpen > @.eyeOpen
                       THEN smooth ELSE @,
        !.minEyeOpen = IF @ = NullSignals \/ smooth.eyeOpen < @.eyeOpen
                       THEN smooth ELSE @]

\* a plausible slip: the running mean never stops taking samples
CalibrateForEver(calib, smooth) ==
    [ count |-> calib.count + 1,
      baseline |-> [k \in SignalKeys |->
          (calib.baseline[k] * calib.count + smooth[k])
              \div (calib.count + 1)] ]

\* lines 1100-1129: the running mean of the first 15 landmark vectors
Calibrate(calib, smooth) ==
    IF calib.count < CalibrationFrames
    THEN [ count |-> calib.count + 1,
           baseline |-> [k \in SignalKeys |->
               (calib.baseline[k] * calib.count + smooth[k])
                   \div (calib.count + 1)] ]
    ELSE calib

\* a plausible slip: the hold forces the label whatever the mouth does
TongueHeldAnyMouth(holdUntil, nowMs, mouthOpen) ==
    holdUntil > nowMs

\* lines 1217-1220: the hold is running and the mouth is open
TongueHeld(holdUntil, nowMs, mouthOpen) ==
    /\ holdUntil > nowMs
    /\ mouthOpen > 80

\* a plausible slip: the comparison of the toothy test turned round
RangeToothyBelow(smooth, min, max) ==
    100 * smooth.mouthOpen <
        100 * min.mouthOpen + 60 * (max.mouthOpen - min.mouthOpen)

\* lines 1193-1196: the toothy indicator of a landmark cycle
RangeToothy(smooth, min, max) ==
    100 * smooth.mouthOpen >
        100 * min.mouthOpen + 60 * (max.mouthOpen - min.mouthOpen)

\* a plausible slip: the extremes follow the blendshape vector too
TrackExtremesAnySource(ex, smooth, useBlendshapes) ==
    FoldSnapshots(FoldExtremes(ex, smooth), smooth)

\* lines 1160-1187 and 1227-1267: the extremes tracker after a cycle; both
\* blocks are under `!useBlendshapes`
TrackExtremes(ex, smooth, useBlendshapes) ==
    IF useBlendshapes THEN ex
    ELSE FoldSnapshots(FoldExtremes(ex, smooth), smooth)

\* a plausible slip: the grin shown whenever teeth show
SelectKeyAnyToothy(stableLabel, toothy) ==
    IF toothy THEN "grin" ELSE MapExpressionToMeme(stableLabel)

\* lines 1279-1283: the key displayed for a stabilized label
SelectKey(stableLabel, toothy) ==
    IF stableLabel = "SMILE" /\ toothy
    THEN "grin"
    ELSE MapExpressionToMeme(stableLabel)

\* a plausible slip: once calibrated, the range classifier is handed the
\* vector's distance above the calibration baseline
RangeInputFromBaseline(smooth, calib, isCalibrated) ==
    IF isCalibrated
    THEN [k \in SignalKeys |-> Max(0, smooth[k] - calib.baseline[k])]
    ELSE smooth

\* lines 1188-1192: the vector classifyFromRanges is handed is the smoothed
\* one, whatever the calibration accumulator holds
RangeInput(smooth, calib, isCalibrated) == smooth

\* lines 1099-1284: a cycle with a face (detected or held) and a signal vector
ClassifyAndDisplay(a, stab, in, detected, categories, useBlendshapes, rawSignals, landmarkSignals) ==
    LET smoothSignals == SmootherOutput(a.smoother, rawSignals)
        calib == IF useBlendshapes THEN a.calibration
                 ELSE Calibrate(a.calibration, smoothSignals)
        isCalibrated ==
            \/ a.calibrated
            \/ useBlendshapes
            \/ (a.calibration.count < CalibrationFrames
                  /\ calib.count = CalibrationFrames)
        \* the blendshape branch, lines 1135-1159
        blendDebug == GetBlendshapeDebug(categories)
        nextLabel0 == "NEUTRAL"
        tongueProxy ==
            \/ BlendTongueOut(categories) >= 200
            \/ /\ nextLabel0 = "SCREAM"
               /\ blendDebug.jawOpen >= 350
               /\ blendDebug.mouthFunnel >= 10
               /\ blendDebug.mouthSmile <= 450
        blendLabel == IF tongueProxy THEN "FREAKY"
                      ELSE ClassifyExpression(smoothSignals, BlendThresholds)
        blendToothy ==
            BlendMouthUpperUp(categories) > 250 \/ blendDebug.jawOpen > 150
        \* the landmark branch, lines 1160-1197
        ex1 == FoldExtremes(a.extremes, smoothSignals)
        rangeLabel ==
            ClassifyFromRanges(RangeInput(smoothSignals, calib, isCalibrated),
                               ex1.min, ex1.max)
        rangeToothy == RangeToothy(smoothSignals, ex1.min, ex1.max)
        nextLabel1 == IF useBlendshapes THEN blendLabel ELSE rangeLabel
        toothy == IF useBlendshapes THEN blendToothy ELSE rangeToothy
        \* the tongue hold, lines 1199-1225
        hasLandmarks == landmarkSignals # NullSignals
        armed == /\ hasLandmarks
                 /\ in.tongueScore # NoValue
                 /\ in.tongueScore >= 250
                 /\ landmarkSignals.mouthOpen > 100
        holdUntil ==
            IF armed
            THEN in.now + TongueHoldMs
            ELSE a.tongueHoldUntil
        nextLabel ==
            IF hasLandmarks
                 /\ TongueHeld(holdUntil, in.now, landmarkSignals.mouthOpen)
            THEN "FREAKY"
            ELSE nextLabel1
        ex2 == TrackExtremes(a.extremes, smoothSignals, useBlendshapes)
        \* lines 1278-1284
        stab1 == Update(stab, nextLabel, in.now)
        stableLabel == stab1.current
        nextKey == SelectKey(stableLabel, toothy)
    IN  [Outcome([a EXCEPT
                    !.smoother = SmootherAfter(a.smoother, rawSignals),
                    !.calibration = calib,
                    !.calibrated = isCalibrated,
                    !.signalSource = IF useBlendshapes THEN "blendshapes"
                                     ELSE "landmarks",
                    !.toothySmile = toothy,
                    !.extremes = ex2,
                    !.tongueHoldUntil = holdUntil,
                    !.selectedKey = nextKey],
                stab1, "classified", detected,
                IF useBlendshapes THEN "blendshapes" ELSE "landmarks",
                nextLabel, {"smoother", "classifier", "stabilizer"})
          EXCEPT !.raw = rawSignals,
                 !.classifier = IF useBlendshapes THEN "classifyExpression"
                                ELSE "classifyFromRanges",
                 !.classified = nextLabel1,
                 !.mouthOpen = IF hasLandmarks THEN landmarkSignals.mouthOpen
                               ELSE NoValue,
                 !.armed = armed,
                 !.proxy = useBlendshapes /\ tongueProxy]

\* result.faceBlendshapes?.[0]?.categories, lines 1065-1070
CategoriesOf(result) ==
    IF Len(result.faceBlendshapes) > 0
    THEN result.faceBlendshapes[1].categories
    ELSE <<>>

\* blendStrength, lines 1074-1077
BlendStrength(categories) ==
    IF NoCategories(categories) THEN 0
    ELSE GetBlendshapeDebug(categories).jawOpen
           + GetBlendshapeDebug(categories).mouthSmile
           + GetBlendshapeDebug(categories).eyeSquint

\* lines 1064-1097: both signal vectors, the choice between them, and the
\* return of a cycle that has neither
SelectSource(a, stab, in, detected) ==
    LET hasBlend == Len(in.result.faceBlendshapes) > 0
        categories == CategoriesOf(in.result)
        hasFace == Len(in.result.faceLandmarks) > 0
        throws == hasFace /\ ComputeSignalsThrows(in.result.faceLandmarks[1])
        blendSignals == IF NoCategories(categories) THEN NullSignals
                        ELSE ComputeBlendshapeSignals(categories)
        landmarkSignals == IF hasFace /\ ~throws
                           THEN ComputeSignals(in.result.faceLandmarks[1])
                           ELSE NullSignals
        blendStrength == BlendStrength(categories)
        useBlendshapes == blendSignals # NullSignals /\ blendStrength >= 150
        rawSignals == IF useBlendshapes THEN blendSignals ELSE landmarkSignals
    IN  IF throws
        THEN Outcome(a, stab, "threw", detected, Null, Null, {})
        ELSE IF rawSignals = NullSignals
        THEN Outcome([a EXCEPT !.selectedKey = "neutral",
                               !.signalSource = IF hasBlend THEN "blendshapes"
                                                ELSE "landmarks"],
                     ResetLabelStabilizer, "noSignals", detected, Null, Null,
                     {})
        ELSE ClassifyAndDisplay(a, stab, in, detected, categories,
                                useBlendshapes, rawSignals, landmarkSignals)

\* a plausible slip: the hold expires and nothing is reset
HoldExpiredNoReset(a, stab, detected) ==
    Outcome(a, stab, "absent", detected, Null, Null, {})

\* lines 1054-1062: no face and no hold, the cycle ends ABSENT
HoldExpired(a, stab, detected) ==
    Outcome([a EXCEPT !.selectedKey = "neutral"],
            ResetLabelStabilizer, "absent", detected, Null, Null, {})

\* lines 1026-1062: presence gating
PresenceGate(a, stab, in) ==
    LET detected == Len(in.result.faceLandmarks) > 0
        lastDetected1 == IF detected THEN in.now ELSE a.lastDetectedAt
        withinHold == WithinHold(lastDetected1, in.now)
        stableDetected == detected \/ withinHold
        lastDetected2 == IF ~detected THEN NullTime ELSE lastDetected1
        a1 == [a EXCEPT !.lastDetectedAt = lastDetected2,
                        !.lastFaceState = stableDetected,
                        !.faceDetected = stableDetected]
    IN  IF ~stableDetected
        THEN HoldExpired(a1, stab, detected)
        ELSE SelectSource(a1, stab, in, detected)

\* onResult(result), lines 960-1285: one cycle
OnResult(a, stab, in) ==
    LET a0 == [a EXCEPT !.loopStarted = TRUE]
    IN  IF in.readyState < 2
        THEN ForcedAbsent(a0, "notReady")
        ELSE IF Stalled(a0, in)
        THEN ForcedAbsent(a0, "stalled")
        ELSE IF in.track # "live"
        THEN ForcedAbsent(TrackVideoTime(a0, in), "trackNotLive")
        ELSE PresenceGate(TrackVideoTime(a0, in), stab, in)

\* a face looking straight ahead, mouth closed: the landmarks computeSignals
\* reads, in thousandths of the image
FaceNeutral ==
    (33 :> Point(300, 400)) @@ (263 :> Point(700, 400)) @@
    (133 :> Point(450, 400)) @@ (362 :> Point(550, 400)) @@
    (1 :> Point(500, 500)) @@ (152 :> Point(500, 800)) @@
    (13 :> Point(500, 650)) @@ (14 :> Point(500, 660)) @@
    (61 :> Point(420, 655)) @@ (291 :> Point(580, 655)) @@
    (159 :> Point(375, 385)) @@ (145 :> Point(375, 415)) @@
    (386 :> Point(625, 385)) @@ (374 :> Point(625, 415))

NoFaceResult == Result(<<>>, <<>>)
\* a face whose blendshapes say "jaw wide open"
ScreamResult ==
    Result(<<FaceNeutral>>, <<[categories |-> <<Category("jawOpen", 400)>>]>>)

(***************************************************************************)
(* Cycles.  A cycle is one call of onResult; it reads the clock, the video *)
(* element, the camera track and the detection result.  video.currentTime  *)
(* is, unless said otherwise, the clock time at which the video last       *)
(* advanced: a playing video shows the time of the cycle, a stalled one the *)
(* time it stopped at.  The history variable `cycle` records how the last cycle ended, what*)
(* it was given, the face flag and the displayed key before it, and        *)
(* lastFaceAt, the time of the last cycle whose result contained a face.   *)
(***************************************************************************)
NoCycle ==
    [ how |-> "none", detected |-> FALSE, notReady |-> FALSE,
      stalled |-> FALSE, trackLive |-> TRUE, faceBefore |-> FALSE,
      keyBefore |-> "neutral", source |-> Null, rawLabel |-> Null,
      ran |-> {}, lastFaceAt |-> NullTime,
      result |-> NoFaceResult,
      raw |-> NullSignals, classifier |-> Null, classified |-> Null,
      mouthOpen |-> NoValue, armed |-> FALSE, lastTongueAt |-> NullTime,
      proxy |-> FALSE, lastProxyAt |-> NullTime,
      \* for each source, a smoother of its own given that source's vectors
      alone |-> [src \in {"blendshapes", "landmarks"} |->
                   SignalSmoother(SmootherAlpha)] ]

Unforced == {"absent", "noSignals", "classified", "threw"}

RunCycle(in) ==
    \E out \in {OnResult(app, labelStabilizer, in)} :
        /\ now' = in.now
        /\ videoTime' = in.currentTime
        /\ app' = out.app
        /\ labelStabilizer' = out.stab
        /\ cycle' =
             [ how |-> out.how,
               detected |-> Len(in.result.faceLandmarks) > 0,
               notReady |-> in.readyState < 2,
               stalled |-> Stalled(app, in),
               trackLive |-> in.track = "live",
               faceBefore |-> app.lastFaceState,
               keyBefore |-> app.selectedKey,
               source |-> out.source,
               rawLabel |-> out.rawLabel,
               ran |-> out.ran,
               lastFaceAt |-> IF Len(in.result.faceLandmarks) > 0
                              THEN in.now
                              ELSE cycle.lastFaceAt,
               result |-> in.result,
               raw |-> out.raw,
               classifier |-> out.classifier,
               classified |-> out.classified,
               mouthOpen |-> out.mouthOpen,
               armed |-> out.armed,
               lastTongueAt |-> IF out.armed THEN in.now
                                ELSE cycle.lastTongueAt,
               proxy |-> out.proxy,
               lastProxyAt |-> IF out.proxy THEN in.now
                               ELSE cycle.lastProxyAt,
               alone |-> IF out.how = "classified"
                         THEN [cycle.alone EXCEPT
                                 ![out.source] = SmootherAfter(@, out.raw)]
                         ELSE cycle.alone ]

\* a cycle of the one run there is
Cycle(in) == RunCycle(in) /\ UNCHANGED <<calc, twin, mount>>

\* no pure function has been called
NoCalc ==
    [op |-> "none", args |-> <<>>, done |-> FALSE, threw |-> FALSE,
     ret |-> Null]

\* App just mounted: `started` false, both refs null, the effect of
\* [started] still to run, no onVideoReady called, no loop started
NoMount ==
    [mounted |-> TRUE, started |-> FALSE, effect |-> TRUE,
     landmarkerRef |-> FALSE, stopLoopRef |-> 0, awaiting |-> 0,
     calls |-> 0, loops |-> <<>>]

\* the App as mounted, no cycle run yet
AppIdle ==
    /\ now = 0
    /\ videoTime = 0
    /\ app = AppMounted
    /\ cycle = NoCycle
    /\ mount = NoMount

\* no second run: its App as mounted, its stabilizer as constructed
NoTwin ==
    [app |-> AppMounted, stab |-> ResetLabelStabilizer, how |-> "none",
     rawLabel |-> Null]

NoApp == AppIdle /\ calc = NoCalc /\ twin = NoTwin

(***************************************************************************)
(* Presence gating: cycles at 100, 400 or 600 ms from the one before, the  *)
(* video ready or not, playing or not, the track live, ended or missing,   *)
(* the result with a face or without.                                      *)
(***************************************************************************)
\* cycle times are k * GateStepMs, k <= MaxGateTick
MaxGateTick == 12
GateStepMs == 100
GateSteps == {1, 4, 6}
ReadyStates == {1, 2}
TrackStates == {"live", "ended", "none"}
GateResults == {NoFaceResult, ScreamResult}

GateInit ==
    /\ NoApp
    /\ NoLoop
    /\ labelStabilizer = ResetLabelStabilizer
    /\ call = NoCall
    /\ run = NoRun
    /\ alt = NoAlt

GateCycle ==
    \E step \in GateSteps, readyState \in ReadyStates, playing \in BOOLEAN,
       track \in TrackStates, result \in GateResults :
        LET t == now + step * GateStepMs
        IN  /\ t <= MaxGateTick * GateStepMs
            /\ Cycle(Input(t, readyState, IF playing THEN t ELSE videoTime,
                           track, result, NoValue))
            /\ UNCHANGED <<call, run, alt>>
            /\ UNCHANGED loopVars

GateNext == GateCycle

SpecGate == GateInit /\ [][GateNext]_vars

\* the last cycle ran with the video ready, the stream advancing and the
\* track live, so that presence was decided by lines 1026-1062
Ungated == cycle.how \in Unforced
\* the last cycle was cut short by one of the three early returns
Gated == cycle.how # "none" /\ cycle.how \notin Unforced
\* time from the last cycle whose result contained a face to the last cycle
SinceLastFace == now - cycle.lastFaceAt

\* C4: with video ready, stream advancing and track live, a cycle takes the
\* presence state from PRESENT to ABSENT only if its result contains no face
\* and the last cycle that detected a face is more than 500 ms back; a
\* no-face cycle within 400 ms of the last detected frame keeps PRESENT.
C4_AbsentOnlyAfterHold ==
    /\ (Ungated /\ cycle.faceBefore /\ ~app.lastFaceState)
          => (~cycle.detected /\ SinceLastFace > FACE_HOLD_MS)
    /\ (Ungated /\ cycle.faceBefore /\ ~cycle.detected
          /\ SinceLastFace <= 400)
          => app.lastFaceState

\* C5: a cycle whose result contains no face and that runs 600 ms or more
\* after the last cycle that detected a face ends ABSENT: the face flag is
\* false and the cycle classifies nothing.
C5_AbsentAfterGap ==
    (cycle.how # "none" /\ ~cycle.detected
       /\ cycle.lastFaceAt # NullTime /\ SinceLastFace >= 600)
      => /\ ~app.faceDetected
         /\ ~app.lastFaceState
         /\ "classifier" \notin cycle.ran

\* PRESENT before, no face now, exactly 600 ms after the last face
C5_Witness ==
    /\ cycle.how = "absent"
    /\ cycle.faceBefore
    /\ ~cycle.detected
    /\ SinceLastFace = 600
    /\ ~app.faceDetected

C7_AbsentResets ==
    (cycle.how # "none" /\ ~app.lastFaceState)
      => /\ labelStabilizer.current = "NEUTRAL"
         /\ labelStabilizer.pending = Null
         /\ labelStabilizer.pendingFrames = 0
         /\ app.selectedKey = "neutral"

\* the scream meme was on display when the hold expired
C7_Witness ==
    /\ cycle.how = "absent"
    /\ cycle.keyBefore = "scream"
    /\ ~app.lastFaceState
    /\ app.selectedKey = "neutral"

(***************************************************************************)
(* A LabelStabilizer on its own, driven by arbitrary update / getCurrent   *)
(* calls.  The history variables record what the caller supplied:          *)
(*   call : the last call, its arguments and the value it returned         *)
(*   run  : the maximal run of equal labels that ends with the last update *)
(*          (its label, its length, `current` when it began, and whether   *)
(*          every update of it had nowMs - lastSwitchAt >= cooldownMs)     *)
(*   alt  : whether the whole stream of labels since construction strictly *)
(*          alternates between two labels a, c (a, c, a, c, ...)           *)
(***************************************************************************)
StabInitial == "NEUTRAL"
StabLabels == {"NEUTRAL", "SMILE", "SCREAM"}
StabParams == { <<DefaultStableFrames, DefaultCooldownMs>>,
                <<AppStableFrames, AppCooldownMs>>,
                <<SmallStableFrames, AppCooldownMs>> }
StabTimes == { k * StabStepMs : k \in 0..MaxStabTick }

NextRun(r, s, label, nowMs) ==
    LET cool == nowMs - s.lastSwitchAt >= s.cooldownMs
    IN  IF label = r.label
        THEN [r EXCEPT !.len = Min(r.len + 1, MaxFrames + 1),
                       !.ok = r.ok /\ cool]
        ELSE [label |-> label, len |-> 1, startCurrent |-> s.current,
              ok |-> cool]

NextAlt(a, label) ==
    IF ~a.ok THEN BrokenAlt
    ELSE IF a.n = 0
    THEN [ok |-> TRUE, a |-> label, c |-> Null, last |-> label, n |-> 1]
    ELSE IF a.n = 1
    THEN IF label # a.a
         THEN [a EXCEPT !.c = label, !.last = label, !.n = 2]
         ELSE BrokenAlt
    ELSE IF label # a.last /\ label \in {a.a, a.c}
         THEN [a EXCEPT !.last = label, !.n = Min(a.n + 1, MaxFrames + 1)]
         ELSE BrokenAlt

StabInit ==
    /\ \E p \in StabParams :
          labelStabilizer = LabelStabilizer(StabInitial, p[1], p[2])
    /\ call = NoCall
    /\ run = NoRun
    /\ alt = NoAlt
    /\ NoLoop
    /\ NoApp

StabUpdate ==
    \E label \in StabLabels, nowMs \in StabTimes :
        LET s == Update(labelStabilizer, label, nowMs)
        IN  /\ s.pendingFrames <= MaxFrames
            /\ labelStabilizer' = s
            /\ call' = [op |-> "update", label |-> label, nowMs |-> nowMs,
                        ret |-> s.current,
                        switched |-> call.switched
                                       \/ s.current # labelStabilizer.current,
                        switchedAt |-> IF s.current # labelStabilizer.current
                                       THEN nowMs ELSE call.switchedAt]
            /\ run' = NextRun(run, labelStabilizer, label, nowMs)
            /\ alt' = NextAlt(alt, label)
            /\ UNCHANGED loopVars
            /\ UNCHANGED appVars

StabGetCurrent ==
    /\ call' = [op |-> "getCurrent", label |-> Null, nowMs |-> 0,
                ret |-> GetCurrent(labelStabilizer),
                switched |-> call.switched, switchedAt |-> call.switchedAt]
    /\ UNCHANGED <<labelStabilizer, run, alt>>
    /\ UNCHANGED loopVars
    /\ UNCHANGED appVars

StabNext == StabUpdate \/ StabGetCurrent

SpecStab == StabInit /\ [][StabNext]_vars

(***************************************************************************)
(* C1: `current` changes in an update only if the update's label differs   *)
(* from the old `current`, the same label was supplied in at least         *)
(* stableFrames consecutive updates ending with this one, and              *)
(* nowMs - lastSwitchAt >= cooldownMs; the new `current` is that label.    *)
(***************************************************************************)
C1_SwitchOnlyWhenStableAndCool ==
    [][ labelStabilizer'.current # labelStabilizer.current =>
          /\ call'.op = "update"
          /\ call'.label # labelStabilizer.current
          /\ run'.label = call'.label
          /\ run'.len >= labelStabilizer.stableFrames
          /\ call'.nowMs - labelStabilizer.lastSwitchAt
                >= labelStabilizer.cooldownMs
          /\ labelStabilizer'.current = call'.label ]_vars

\* an update has just committed a switch, on the stableFrames-th equal label
C1_Witness ==
    /\ call.op = "update"
    /\ run.len = labelStabilizer.stableFrames
    /\ run.startCurrent # labelStabilizer.current
    /\ labelStabilizer.current = call.label
    /\ labelStabilizer.lastSwitchAt = call.nowMs

(***************************************************************************)
(* C2: with stableFrames = n >= 2 and current label B, n consecutive       *)
(* updates with one label A # B, every timestamp satisfying the cooldown,  *)
(* return B for the first n-1 updates and A on the n-th.                   *)
(***************************************************************************)
C2_CommitOnNthFrame ==
    ( /\ call.op = "update"
      /\ labelStabilizer.stableFrames >= 2
      /\ run.label # run.startCurrent
      /\ run.ok
      /\ run.len <= labelStabilizer.stableFrames )
    => call.ret = IF run.len < labelStabilizer.stableFrames
                  THEN run.startCurrent
                  ELSE run.label

\* the n-th update of such a run, with n = 5, has returned A
C2_Witness ==
    /\ call.op = "update"
    /\ labelStabilizer.stableFrames = AppStableFrames
    /\ run.label # run.startCurrent
    /\ run.ok
    /\ run.len = AppStableFrames
    /\ call.ret = run.label

(***************************************************************************)
(* C3: with stableFrames >= 2 and current label B, a stream of updates     *)
(* that strictly alternates between two labels never commits a switch,     *)
(* whatever the timestamps: every update returns B.                        *)
(***************************************************************************)
C3_AlternationNeverCommits ==
    ( /\ call.op = "update"
      /\ labelStabilizer.stableFrames >= 2
      /\ alt.ok
      /\ alt.n >= 1 )
    => /\ call.ret = StabInitial
       /\ labelStabilizer.current = StabInitial
       /\ labelStabilizer.lastSwitchAt = 0

\* a long alternating stream of two labels that both differ from B, fed at
\* timestamps that satisfy the cooldown
C3_Witness ==
    /\ call.op = "update"
    /\ alt.ok
    /\ alt.n > AppStableFrames
    /\ StabInitial \notin {alt.a, alt.c}
    /\ call.nowMs >= labelStabilizer.cooldownMs
    /\ labelStabilizer.pendingFrames = 1

(***************************************************************************)
(* vision/runLoop.ts : startFaceLoop                                       *)
(*                                                                         *)
(* One loop.  JavaScript runs one callback at a time, so a call of stop    *)
(* from outside happens only while no tick is running (pc = "idle"); the   *)
(* onResult callback is the caller's and may itself call stop, or throw,   *)
(* as detectForVideo may.  pc follows the thread through tick:             *)
(*   "idle" -> "detect" -> "onResult" -> "inOnResult" -> "schedule"        *)
(***************************************************************************)
\* timers the model lets one loop create
MaxTimers == 5
\* calls of stop the model follows
MaxStops == 3

\* window.setTimeout(tick, intervalMs): a new pending timer, its id returned
SetTimeout ==
    /\ nextTimerId <= MaxTimers
    /\ timers' = timers \cup {nextTimerId}
    /\ timeoutId' = nextTimerId
    /\ nextTimerId' = nextTimerId + 1

\* startFaceLoop: the state when it returns the stop function (lines 19-31)
StartFaceLoop ==
    /\ stopped = FALSE
    /\ timeoutId = 1
    /\ timers = {1}
    /\ nextTimerId = 2
    /\ pc = "idle"
    /\ loopLog = [detectCalls |-> 0, resultCalls |-> 0, stopCalls |-> 0,
                  stopAt |-> "never", firedAfterStop |-> 0]

\* a plausible slip: tick without its `if (stopped) return`
TickReturnsEarlyNever == FALSE

\* tick, line 24: if (stopped) return
TickReturnsEarly == stopped

\* a plausible slip: the next timer is created when tick starts (as an
\* interval would), before detectForVideo and onResult have run
TickBeginSchedulesFirst ==
    /\ pc = "idle"
    /\ ~stopped
    /\ nextTimerId <= MaxTimers
    /\ \E id \in timers : timers' = (timers \ {id}) \cup {nextTimerId}
    /\ timeoutId' = nextTimerId
    /\ nextTimerId' = nextTimerId + 1
    /\ pc' = "detect"
    /\ UNCHANGED <<stopped, loopLog>>

\* a pending timer of the loop fires and tick starts; the timer is one-shot
TickBegin ==
    /\ pc = "idle"
    /\ \E id \in timers : timers' = timers \ {id}
    /\ pc' = IF TickReturnsEarly THEN "idle" ELSE "detect"
    /\ loopLog' = [loopLog EXCEPT !.firedAfterStop =
                       IF stopped THEN Min(@ + 1, MaxStops) ELSE @]
    /\ UNCHANGED <<stopped, timeoutId, nextTimerId>>

\* tick, lines 25-26: landmarker.detectForVideo(video, nowMs) is called and
\* returns a result
DetectForVideo ==
    /\ pc = "detect"
    /\ pc' = "onResult"
    /\ loopLog' = [loopLog EXCEPT !.detectCalls = @ + 1]
    /\ UNCHANGED <<stopped, timeoutId, timers, nextTimerId>>

\* ... or throws: tick ends there, nothing is scheduled
DetectForVideoThrows ==
    /\ pc = "detect"
    /\ pc' = "idle"
    /\ loopLog' = [loopLog EXCEPT !.detectCalls = @ + 1]
    /\ UNCHANGED <<stopped, timeoutId, timers, nextTimerId>>

\* tick, line 27: onResult(result) is called
OnResultCalled ==
    /\ pc = "onResult"
    /\ pc' = "inOnResult"
    /\ loopLog' = [loopLog EXCEPT !.resultCalls = @ + 1]
    /\ UNCHANGED <<stopped, timeoutId, timers, nextTimerId>>

OnResultReturns ==
    /\ pc = "inOnResult"
    /\ pc' = "schedule"
    /\ UNCHANGED <<stopped, timeoutId, timers, nextTimerId, loopLog>>

OnResultThrows ==
    /\ pc = "inOnResult"
    /\ pc' = "idle"
    /\ UNCHANGED <<stopped, timeoutId, timers, nextTimerId, loopLog>>

\* tick, line 28: timeoutId = window.setTimeout(tick, intervalMs)
TickSchedule ==
    /\ pc = "schedule"
    /\ SetTimeout
    /\ pc' = "idle"
    /\ UNCHANGED <<stopped, loopLog>>

\* the moment of a call of stop
StopMoment ==
    IF pc = "inOnResult" THEN "insideOnResult"
    ELSE IF loopLog.detectCalls = 0 THEN "beforeFirstTick"
    ELSE "betweenTicks"

\* the returned stop function, lines 33-38
Stop ==
    /\ pc \in {"idle", "inOnResult"}
    /\ loopLog.stopCalls < MaxStops
    /\ stopped' = TRUE
    /\ timers' = IF timeoutId # NoTimer THEN timers \ {timeoutId} ELSE timers
    /\ loopLog' = [loopLog EXCEPT
                       !.stopCalls = @ + 1,
                       !.stopAt = IF stopped THEN @ ELSE StopMoment]
    /\ UNCHANGED <<timeoutId, nextTimerId, pc>>

LoopInit ==
    /\ StartFaceLoop
    /\ labelStabilizer = LabelStabilizer(StabInitial, AppStableFrames,
                                          AppCooldownMs)
    /\ call = NoCall
    /\ run = NoRun
    /\ alt = NoAlt
    /\ NoApp

LoopNext ==
    \/ (TickBegin /\ UNCHANGED stabVars /\ UNCHANGED appVars)
    \/ (DetectForVideo /\ UNCHANGED stabVars /\ UNCHANGED appVars)
    \/ (DetectForVideoThrows /\ UNCHANGED stabVars /\ UNCHANGED appVars)
    \/ (OnResultCalled /\ UNCHANGED stabVars /\ UNCHANGED appVars)
    \/ (OnResultReturns /\ UNCHANGED stabVars /\ UNCHANGED appVars)
    \/ (OnResultThrows /\ UNCHANGED stabVars /\ UNCHANGED appVars)
    \/ (TickSchedule /\ UNCHANGED stabVars /\ UNCHANGED appVars)
    \/ (Stop /\ UNCHANGED stabVars /\ UNCHANGED appVars)

SpecLoop == LoopInit /\ [][LoopNext]_vars

(***************************************************************************)
(* C8: once stop has been called, detectForVideo and onResult are never    *)
(* invoked again by the loop, whatever the moment of the call (before the  *)
(* first tick, between ticks, inside onResult); further calls of stop      *)
(* change nothing of this.                                                 *)
(***************************************************************************)
C8_NoCallsAfterStop ==
    [][ stopped =>
          /\ stopped'
          /\ loopLog'.detectCalls = loopLog.detectCalls
          /\ loopLog'.resultCalls = loopLog.resultCalls ]_vars

\* stop was called from inside onResult and again later, and a timer of the
\* loop has fired since
C8_Witness ==
    /\ stopped
    /\ loopLog.stopAt = "insideOnResult"
    /\ loopLog.stopCalls >= 2
    /\ loopLog.firedAfterStop >= 1
    /\ pc = "idle"

(***************************************************************************)
(* C9: after stop has been called and the running tick (if any) has        *)
(* finished, no timer created by the loop remains pending, also when stop  *)
(* is called from inside onResult.                                         *)
(***************************************************************************)
C9_NoTimerAfterStop ==
    (stopped /\ pc = "idle") => timers = {}

(***************************************************************************)
(* C10: cycles never overlap: at most one timer of the loop is pending at  *)
(* any time, none while a cycle runs, and the timer of the next cycle is   *)
(* created only after the cycle's detectForVideo and onResult have both    *)
(* returned.                                                               *)
(***************************************************************************)
C10_CyclesNeverOverlap ==
    /\ [](Cardinality(timers) <= 1)
    /\ [](pc # "idle" => timers = {})
    /\ [][ timers' \ timers # {} => (pc = "schedule" /\ pc' = "idle") ]_vars

\* a second cycle has run to its end and the third is scheduled
C10_Witness ==
    /\ ~stopped
    /\ pc = "idle"
    /\ loopLog.resultCalls >= 2
    /\ Cardinality(timers) = 1

(***************************************************************************)
(* The pipeline: the loop of runLoop.ts with App's handler as its onResult *)
(* (lines 957-1286), the video ready and playing, the track live.  A       *)
(* cycle runs intervalMs after the one before.                             *)
(***************************************************************************)
\* intervalMs = Math.max(1, Math.round(1000 / 12))
IntervalMs == 83

\* a face without blendshapes
LandmarkResult == Result(<<FaceNeutral>>, <<>>)
\* a landmark list that ends before the right-eye indices 362, 374 and 386
ShortFace == [i \in {33, 263, 133, 1, 152, 13, 14, 61, 291, 159, 145} |->
                 FaceNeutral[i]]
ShortResult == Result(<<ShortFace>>, <<>>)
\* degenerate geometry: every landmark at the same point
PointFace == [i \in IdxUsed |-> Point(500, 500)]
PointResult == Result(<<PointFace>>, <<>>)

PipeResults ==
    {NoFaceResult, LandmarkResult, ScreamResult, ShortResult, PointResult}

\* tick, line 27, with App's handler: onResult(result) runs one cycle; an
\* exception of the handler leaves tick before line 28
AppOnResult ==
    /\ pc = "onResult"
    /\ \E result \in PipeResults :
          Cycle(Input(now + IntervalMs, 4, now + IntervalMs, "live", result,
                      NoValue))
    /\ pc' = IF cycle'.how = "threw" THEN "idle" ELSE "schedule"
    /\ loopLog' = [loopLog EXCEPT !.resultCalls = @ + 1]
    /\ UNCHANGED <<stopped, timeoutId, timers, nextTimerId>>
    /\ UNCHANGED <<call, run, alt>>

\* onVideoReady called again, lines 936-1288: the running loop is stopped
\* (lines 953-955) and a new one started (line 957); no ref is touched
OnVideoReady ==
    /\ pc = "idle"
    /\ loopLog.resultCalls >= 1
    /\ nextTimerId <= MaxTimers
    /\ stopped' = FALSE
    /\ timers' = (IF timeoutId # NoTimer THEN timers \ {timeoutId} ELSE timers)
                    \cup {nextTimerId}
    /\ timeoutId' = nextTimerId
    /\ nextTimerId' = nextTimerId + 1
    /\ cycle' = [cycle EXCEPT !.how = "restarted"]
    /\ UNCHANGED <<pc, loopLog, now, videoTime, app, calc, twin, mount>>
    /\ UNCHANGED stabVars

PipeInit ==
    /\ StartFaceLoop
    /\ labelStabilizer = ResetLabelStabilizer
    /\ call = NoCall
    /\ run = NoRun
    /\ alt = NoAlt
    /\ NoApp

PipeNext ==
    \/ (TickBegin /\ UNCHANGED stabVars /\ UNCHANGED appVars)
    \/ (DetectForVideo /\ UNCHANGED stabVars /\ UNCHANGED appVars)
    \/ (DetectForVideoThrows /\ UNCHANGED stabVars /\ UNCHANGED appVars)
    \/ AppOnResult
    \/ (TickSchedule /\ UNCHANGED stabVars /\ UNCHANGED appVars)
    \/ OnVideoReady

SpecRestart == PipeInit /\ [][PipeNext]_vars

(***************************************************************************)
(* C11: when onVideoReady is invoked again after a loop was running, the   *)
(* first cycle of the new loop finds the per-session state as at mount:    *)
(* smoother without samples, stabilizer at NEUTRAL with nothing pending,   *)
(* extremes empty, calibration count 0, tongue-hold deadline 0, video-time *)
(* tracking cleared.                                                       *)
(***************************************************************************)
C11_RestartResets ==
    cycle.how = "restarted"
      => /\ app.smoother = SignalSmoother(SmootherAlpha)
         /\ labelStabilizer.current = "NEUTRAL"
         /\ labelStabilizer.pending = Null
         /\ labelStabilizer.pendingFrames = 0
         /\ app.extremes.min = NullSignals
         /\ app.extremes.max = NullSignals
         /\ app.calibration.count = 0
         /\ app.tongueHoldUntil = 0
         /\ app.lastVideoTime = NullTime

(***************************************************************************)
(* The pipeline left to run: the same loop, never restarted, stop called   *)
(* from outside at any idle moment or never.  A pending timer fires and a  *)
(* started tick runs on.                                                   *)
(***************************************************************************)
LiveTick ==
    \/ (TickBegin /\ UNCHANGED stabVars /\ UNCHANGED appVars)
    \/ (DetectForVideo /\ UNCHANGED stabVars /\ UNCHANGED appVars)
    \/ (DetectForVideoThrows /\ UNCHANGED stabVars /\ UNCHANGED appVars)
    \/ AppOnResult
    \/ (TickSchedule /\ UNCHANGED stabVars /\ UNCHANGED appVars)

LiveStop == pc = "idle" /\ Stop /\ UNCHANGED stabVars /\ UNCHANGED appVars

LiveNext == LiveTick \/ LiveStop

SpecLive == PipeInit /\ [][LiveNext]_vars /\ WF_vars(LiveTick)

(***************************************************************************)
(* C12: as long as stop has not been called the loop keeps running: after  *)
(* every cycle, whatever its result and also when detection or the handler *)
(* fails, a further cycle is eventually run.  (The k-th cycle is followed  *)
(* by another for every k the model's timers allow.)                       *)
(***************************************************************************)
C12_LoopKeepsRunning ==
    \A k \in 1..(MaxTimers - 1) :
        (loopLog.detectCalls = k /\ ~stopped)
            ~> (stopped \/ loopLog.detectCalls > k)

(***************************************************************************)
(* Pure functions.  A call is drawn with its arguments when the behaviour  *)
(* starts and made by the one action of its specification; `calc` holds    *)
(* the arguments, whether the call was made, whether it threw, and what it *)
(* returned.  Nothing else runs.                                           *)
(***************************************************************************)
Quiet ==
    /\ NoLoop
    /\ AppIdle
    /\ labelStabilizer = ResetLabelStabilizer
    /\ call = NoCall
    /\ run = NoRun
    /\ alt = NoAlt
    /\ twin = NoTwin

QuietVars ==
    <<labelStabilizer, call, run, alt, stopped, timeoutId, timers,
      nextTimerId, pc, loopLog, now, videoTime, app, cycle, twin, mount>>

\* a call not made yet
Pending(op, args, ret) ==
    [op |-> op, args |-> args, done |-> FALSE, threw |-> FALSE, ret |-> ret]

(***************************************************************************)
(* computeSignals(landmarks)                                               *)
(***************************************************************************)
\* the faces: the lips apart by lipGap, the chin at chinY (at 500 it is on
\* the nose tip), the right outer eye corner at outerX (at 300 it is on the
\* left one)
LipGaps == {0, 10, 25, 100, 200, 300}
ChinYs == {500, 800}
OuterXs == {300, 700}
\* landmark lists of these lengths: indices at or above the length are absent
ListLengths == {0, 263, 362, 479}

Face(lipGap, chinY, outerX) ==
    [i \in IdxUsed |->
        IF i = 14 THEN Point(500, 650 + lipGap)
        ELSE IF i = 152 THEN Point(500, chinY)
        ELSE IF i = 263 THEN Point(outerX, 400)
        ELSE FaceNeutral[i]]

Truncated(face, length) ==
    [i \in {j \in DOMAIN face : j < length} |-> face[i]]

SignalsInit ==
    /\ Quiet
    /\ \E lipGap \in LipGaps, chinY \in ChinYs, outerX \in OuterXs,
          length \in ListLengths :
          calc = Pending("computeSignals",
                         <<Truncated(Face(lipGap, chinY, outerX), length)>>,
                         NullSignals)

CallComputeSignals ==
    /\ calc.op = "computeSignals"
    /\ ~calc.done
    /\ calc' = [calc EXCEPT
                  !.done = TRUE,
                  !.threw = ComputeSignalsThrows(calc.args[1]),
                  !.ret = IF ComputeSignalsThrows(calc.args[1])
                          THEN NullSignals
                          ELSE ComputeSignals(calc.args[1])]
    /\ UNCHANGED QuietVars

SignalsNext == CallComputeSignals

SpecSignals == SignalsInit /\ [][SignalsNext]_vars

\* C13: computeSignals never raises, for any landmark list, also one that
\* lacks some of the indices it reads or whose points coincide: it returns
\* a signal vector (every denominator floored, so every signal a number).
C13_ComputeSignalsNeverRaises ==
    (calc.op = "computeSignals" /\ calc.done)
      => /\ ~calc.threw
         /\ \A k \in SignalKeys : calc.ret[k] >= 0

(***************************************************************************)
(* classifyExpression(signals, thresholds)                                 *)
(***************************************************************************)
ClassifyMouthOpens == {-300, 100, 180, 280, 500}
ClassifySmiles == {-700, 100, 620, 700}
ClassifyEyeOpens == {-200, 50, 120, 500}
ClassifyThresholds ==
    { Thresholds(a, b, c, d) :
        a \in {-280, 0, 280}, b \in {-620, 620}, c \in {-180, 180},
        d \in {-120, 120} }

ClassifyInit ==
    /\ Quiet
    /\ \E m \in ClassifyMouthOpens, sm \in ClassifySmiles,
          e \in ClassifyEyeOpens, th \in ClassifyThresholds :
          calc = Pending("classifyExpression", <<Signals(1000, m, sm, e), th>>,
                         Null)

CallClassifyExpression ==
    /\ calc.op = "classifyExpression"
    /\ ~calc.done
    /\ calc' = [calc EXCEPT
                  !.done = TRUE,
                  !.ret = ClassifyExpression(calc.args[1], calc.args[2])]
    /\ UNCHANGED QuietVars

ClassifyNext == CallClassifyExpression

SpecClassify == ClassifyInit /\ [][ClassifyNext]_vars

Classified == calc.op = "classifyExpression" /\ calc.done

\* the label the documented order gives: first match wins
FirstMatch(signals, th) ==
    IF signals.mouthOpen > th.mouthOpenScream THEN "SCREAM"
    ELSE IF signals.smile > th.smile /\ signals.mouthOpen < th.mouthOpenSmileMax
    THEN "SMILE"
    ELSE IF signals.eyeOpen < th.eyeOpenSquint THEN "SQUINT"
    ELSE "NEUTRAL"

ClassifiedAs(m, sm, e, th, label) ==
    (Classified /\ calc.args = <<Signals(1000, m, sm, e), th>>)
      => calc.ret = label

\* C15: for non-negative thresholds classifyExpression returns the first
\* match of SCREAM (mouthOpen > mouthOpenScream), SMILE (smile > smile and
\* mouthOpen < mouthOpenSmileMax), SQUINT (eyeOpen < eyeOpenSquint), else
\* NEUTRAL; with the defaults (0.28, 0.62, 0.18, 0.12) the four documented
\* vectors give SCREAM, SMILE, SQUINT and NEUTRAL.
C15_FirstMatchWins ==
    /\ (Classified
          /\ calc.args[2].mouthOpenScream >= 0 /\ calc.args[2].smile >= 0
          /\ calc.args[2].mouthOpenSmileMax >= 0
          /\ calc.args[2].eyeOpenSquint >= 0)
          => calc.ret = FirstMatch(calc.args[1], calc.args[2])
    /\ ClassifiedAs(500, 100, 500, DefaultThresholds, "SCREAM")
    /\ ClassifiedAs(100, 700, 500, DefaultThresholds, "SMILE")
    /\ ClassifiedAs(100, 100, 50, DefaultThresholds, "SQUINT")
    /\ ClassifiedAs(100, 100, 500, DefaultThresholds, "NEUTRAL")

\* a vector that passes both the smile and the squint test: SMILE wins
C15_Witness ==
    /\ Classified
    /\ calc.args = <<Signals(1000, 100, 700, 50), DefaultThresholds>>
    /\ calc.ret = "SMILE"

\* the label when a negative threshold reverses its comparison: "greater
\* than" tests become "less than", "less than" tests "greater than"
Above(value, threshold) ==
    IF threshold < 0 THEN value < threshold ELSE value > threshold
Below(value, threshold) ==
    IF threshold < 0 THEN value > threshold ELSE value < threshold
SignConvention(signals, th) ==
    IF Above(signals.mouthOpen, th.mouthOpenScream) THEN "SCREAM"
    ELSE IF /\ Above(signals.smile, th.smile)
            /\ Below(signals.mouthOpen, th.mouthOpenSmileMax)
    THEN "SMILE"
    ELSE IF Below(signals.eyeOpen, th.eyeOpenSquint) THEN "SQUINT"
    ELSE "NEUTRAL"

\* C16: for each of the four thresholds a negative value reverses the
\* direction of that threshold's comparison.
C16_NegativeReverses ==
    Classified => calc.ret = SignConvention(calc.args[1], calc.args[2])

(***************************************************************************)
(* classifyFromRanges(signals, min, max)                                   *)
(***************************************************************************)
RangeMouthOpens == {0, 599, 600, 780, 781}
RangeSmiles == {0, 830, 831}
RangeEyeOpens == {0, 359, 360, 1000}
RangeSignals ==
    { Signals(1000, m, sm, e) :
        m \in RangeMouthOpens, sm \in RangeSmiles, e \in RangeEyeOpens }
RangeMins == {Signals(1000, 0, 0, 0), Signals(1000, 100, 300, 200)}
RangeSpans == {0, 49, 50, 1000}

\* min and max as the first landmark cycle of a session leaves them
FirstSample(signals) ==
    <<signals, FoldExtremes(NoExtremes, signals).min,
      FoldExtremes(NoExtremes, signals).max>>

RangesInit ==
    /\ Quiet
    /\ \/ \E sig \in RangeSignals, min \in RangeMins,
             mr \in RangeSpans, sr \in RangeSpans, er \in RangeSpans :
             calc = Pending("classifyFromRanges",
                            <<sig, min,
                              Signals(1000, min.mouthOpen + mr, min.smile + sr,
                                      min.eyeOpen + er)>>,
                            Null)
       \/ \E sig \in RangeSignals :
             calc = Pending("classifyFromRanges", FirstSample(sig), Null)

CallClassifyFromRanges ==
    /\ calc.op = "classifyFromRanges"
    /\ ~calc.done
    /\ calc' = [calc EXCEPT
                  !.done = TRUE,
                  !.ret = ClassifyFromRanges(calc.args[1], calc.args[2],
                                             calc.args[3])]
    /\ UNCHANGED QuietVars

RangesNext == CallClassifyFromRanges

SpecRanges == RangesInit /\ [][RangesNext]_vars

Ranged == calc.op = "classifyFromRanges" /\ calc.done
MouthRange == calc.args[3].mouthOpen - calc.args[2].mouthOpen
SmileRange == calc.args[3].smile - calc.args[2].smile
EyeRange == calc.args[3].eyeOpen - calc.args[2].eyeOpen

\* C17: classifyFromRanges returns NEUTRAL for every vector when all three
\* ranges are below 0.05; in particular in the first landmark cycle of a
\* session, where min = max = the current sample.
C17_SmallRangesNeutral ==
    /\ (Ranged /\ MouthRange < 50 /\ SmileRange < 50 /\ EyeRange < 50)
          => calc.ret = "NEUTRAL"
    /\ (Ranged /\ calc.args = FirstSample(calc.args[1]))
          => calc.ret = "NEUTRAL"

\* all ranges 0.049, and a mouth far above 78% of its range
C17_Witness ==
    /\ Ranged
    /\ MouthRange = 49 /\ SmileRange = 49 /\ EyeRange = 49
    /\ calc.args[2].mouthOpen = 0
    /\ calc.args[1].mouthOpen = 781
    /\ calc.ret = "NEUTRAL"

\* C18: when at least one range is 0.05 or more, classifyFromRanges is, first
\* match winning: SCREAM if mouthOpen > min + 0.78 * range; SMILE if
\* smile > min + 0.83 * range and mouthOpen < min + 0.60 * range; SQUINT if
\* eyeOpen < min + 0.36 * range and mouthOpen < min + 0.60 * range; else
\* NEUTRAL.
C18_RangeReference ==
    (Ranged /\ (MouthRange >= 50 \/ SmileRange >= 50 \/ EyeRange >= 50))
      => calc.ret =
           LET sig == calc.args[1]
               min == calc.args[2]
               mouthLow == 100 * sig.mouthOpen
                             < 100 * min.mouthOpen + 60 * MouthRange
           IN  IF 100 * sig.mouthOpen > 100 * min.mouthOpen + 78 * MouthRange
               THEN "SCREAM"
               ELSE IF /\ 100 * sig.smile > 100 * min.smile + 83 * SmileRange
                       /\ mouthLow
               THEN "SMILE"
               ELSE IF /\ 100 * sig.eyeOpen < 100 * min.eyeOpen + 36 * EyeRange
                       /\ mouthLow
               THEN "SQUINT"
               ELSE "NEUTRAL"

\* full ranges from 0, the eye just under 36%: SQUINT; the smile is at 83%
\* exactly, which is not above it
C18_Witness ==
    /\ Ranged
    /\ MouthRange = 1000 /\ SmileRange = 1000 /\ EyeRange = 1000
    /\ calc.args[2] = Signals(1000, 0, 0, 0)
    /\ calc.args[1] = Signals(1000, 599, 830, 359)
    /\ calc.ret = "SQUINT"

(***************************************************************************)
(* Source selection: cycles intervalMs apart, video ready and playing,     *)
(* track live; the result holds no face, or one of three landmark lists    *)
(* with one of seven blendshape sets.                                      *)
(***************************************************************************)
\* cycles the model follows
MaxSourceCycles == 3

\* a face with the mouth open by a tenth of the image
OpenFace == Face(100, 800, 700)

SourceFaces == {FaceNeutral, OpenFace, ShortFace}

\* blendStrength 0.149 and 0.15, from jawOpen alone and from all three terms
SourceBlendshapes ==
    { <<>>,
      <<[categories |-> <<>>]>>,
      <<[categories |-> <<Category("jawOpen", 149)>>]>>,
      <<[categories |-> <<Category("jawOpen", 150)>>]>>,
      <<[categories |-> <<Category("jawOpen", 50),
                          Category("mouthSmileLeft", 60),
                          Category("mouthSmileRight", 40),
                          Category("eyeSquintLeft", 50),
                          Category("eyeSquintRight", 50)>>]>>,
      <<[categories |-> <<Category("jawOpen", 50),
                          Category("mouthSmileLeft", 60),
                          Category("mouthSmileRight", 40),
                          Category("eyeSquintLeft", 48),
                          Category("eyeSquintRight", 50)>>]>>,
      <<[categories |-> <<Category("jawOpen", 400)>>]>> }

SourceResults ==
    {NoFaceResult}
      \cup { Result(<<face>>, blend) :
               face \in SourceFaces, blend \in SourceBlendshapes }

SourceCycle ==
    \E result \in SourceResults :
        /\ now + IntervalMs <= MaxSourceCycles * IntervalMs
        /\ Cycle(Input(now + IntervalMs, 4, now + IntervalMs, "live", result,
                       NoValue))
        /\ UNCHANGED <<call, run, alt>>
        /\ UNCHANGED loopVars

SourceNext == SourceCycle

SpecSource == GateInit /\ [][SourceNext]_vars

\* the selection rule, from what the last cycle was given
BlendshapesChosen ==
    /\ ~NoCategories(CategoriesOf(cycle.result))
    /\ BlendStrength(CategoriesOf(cycle.result)) >= 150

\* C14: in every cycle that passes presence gating, the blendshape vector is
\* the one smoothed and classified iff categories are supplied and
\* jawOpen + mean(mouthSmileLeft, mouthSmileRight) + mean(eyeSquintLeft,
\* eyeSquintRight) >= 0.15; in every other case the landmark vector is;
\* classifyExpression is used exactly with the blendshape vector,
\* classifyFromRanges exactly with the landmark vector.
C14_SourceSelection ==
    (Ungated /\ app.lastFaceState)
      => IF BlendshapesChosen
         THEN /\ cycle.raw = ComputeBlendshapeSignals(CategoriesOf(cycle.result))
              /\ cycle.ran = {"smoother", "classifier", "stabilizer"}
              /\ cycle.classifier = "classifyExpression"
         ELSE /\ Len(cycle.result.faceLandmarks) > 0
              /\ ~ComputeSignalsThrows(cycle.result.faceLandmarks[1])
              /\ cycle.raw = ComputeSignals(cycle.result.faceLandmarks[1])
              /\ cycle.ran = {"smoother", "classifier", "stabilizer"}
              /\ cycle.classifier = "classifyFromRanges"

(***************************************************************************)
(* The tongue hold: cycles 300, 699 or 701 ms apart, video ready and       *)
(* playing, track live, a face in every result: landmarks with the lips    *)
(* 0.08, 0.083, 0.1 or 0.103 of the face height apart, alone or with       *)
(* blendshapes that report the tongue; the colour sampling gives no score  *)
(* or 0.249 or 0.25.                                                       *)
(***************************************************************************)
\* the time of the last cycle the model follows
MaxTongueMs == 1100
TongueSteps == {300, 699, 701}
TongueScores == {NoValue, 249, 250}
\* lip gaps in thousandths of the image; the face is 300 high
TongueLipGaps == {24, 25, 30, 31}
TongueOutBlendshapes ==
    <<[categories |-> <<Category("jawOpen", 400), Category("tongueOut", 300)>>]>>

TongueResults ==
    { Result(<<Face(gap, 800, 700)>>, <<>>) : gap \in TongueLipGaps }
      \cup {Result(<<Face(31, 800, 700)>>, TongueOutBlendshapes)}

TongueCycle ==
    \E step \in TongueSteps, score \in TongueScores, result \in TongueResults :
        /\ now + step <= MaxTongueMs
        /\ Cycle(Input(now + step, 4, now + step, "live", result, score))
        /\ UNCHANGED <<call, run, alt>>
        /\ UNCHANGED loopVars

TongueNext == TongueCycle

SpecTongue == GateInit /\ [][TongueNext]_vars

\* the last cycle reached the tongue hold with a landmark vector, and time
\* since the last cycle that armed the hold (a colour-sampling score of 0.25
\* or more with landmark mouthOpen above 0.1, lines 1209-1213)
AtTongueHold == cycle.how = "classified" /\ cycle.mouthOpen # NoValue
SinceTongue == now - cycle.lastTongueAt

\* C19: after a positive tongue detection at t and none later, a cycle at t'
\* with landmark mouthOpen above 0.08 has its raw label forced to FREAKY
\* when t' - t <= 699 and not forced when t' - t >= 701; a cycle with
\* mouthOpen at 0.08 or less is never forced by the hold.
C19_TongueHold ==
    (AtTongueHold /\ ~cycle.armed)
      => /\ (cycle.lastTongueAt # NullTime /\ cycle.mouthOpen > 80
               /\ SinceTongue <= 699)
               => cycle.rawLabel = "FREAKY"
         /\ (cycle.lastTongueAt # NullTime /\ cycle.mouthOpen > 80
               /\ SinceTongue >= 701)
               => cycle.rawLabel = cycle.classified
         /\ cycle.mouthOpen <= 80 => cycle.rawLabel = cycle.classified

\* 699 ms after the detection, a mouth open by 0.083 and no new detection:
\* the range classifier's label is replaced by FREAKY
C19_Witness ==
    /\ AtTongueHold
    /\ ~cycle.armed
    /\ SinceTongue = 699
    /\ cycle.mouthOpen > 80
    /\ cycle.mouthOpen <= 100
    /\ cycle.classified # "FREAKY"
    /\ cycle.rawLabel = "FREAKY"

\* C20: a positive result of the blendshape-native detector arms the hold as
\* a colour-sampling detection does: after a cycle in which only it fired,
\* later cycles within 700 ms with landmark mouthOpen above 0.08 are forced
\* to FREAKY without a new detection.
C20_EitherDetectorArms ==
    (AtTongueHold /\ ~cycle.proxy /\ ~cycle.armed
       /\ cycle.lastProxyAt # NullTime /\ now - cycle.lastProxyAt <= 699
       /\ cycle.mouthOpen > 80)
      => cycle.rawLabel = "FREAKY"

(***************************************************************************)
(* Classification and display: a session whose first cycle comes 600 ms    *)
(* after the time origin and whose cycles are 80 ms apart, the video ready *)
(* and playing from 0, the track live.  A result has no face, or a face    *)
(* with landmarks alone (mouth closed or wide open), or a face with        *)
(* blendshapes: jaw open with a funnelled mouth, a smile with closed lips, *)
(* a smile with the upper lip raised.  `run` follows the labels handed to  *)
(* the stabilizer.                                                         *)
(***************************************************************************)
MaxDisplayFrames == 7
DisplayStartMs == 600
DisplayStepMs == 80

FunnelResult ==
    Result(<<FaceNeutral>>, <<[categories |-> <<Category("jawOpen", 400), Category("mouthFunnel", 100)>>]>>)
SmileResult ==
    Result(<<FaceNeutral>>, <<[categories |-> <<Category("mouthSmileLeft", 600), Category("mouthSmileRight", 600)>>]>>)
GrinResult ==
    Result(<<FaceNeutral>>, <<[categories |-> <<Category("mouthSmileLeft", 600), Category("mouthSmileRight", 600), Category("mouthUpperUpLeft", 300), Category("mouthUpperUpRight", 300)>>]>>)
ClosedResult == Result(<<FaceNeutral>>, <<>>)
OpenResult == Result(<<OpenFace>>, <<>>)

DisplayResults ==
    {NoFaceResult, FunnelResult, SmileResult, GrinResult, ClosedResult,
     OpenResult}

\* the labels handed to the stabilizer in a row; a cycle that does not reach
\* it ends the row
RunAfter(r, s, how, label, nowMs) ==
    IF how = "classified" THEN NextRun(r, s, label, nowMs) ELSE NoRun

\* a cycle at clock time t, the video showing the time it has played
PlayingCycle(t, result) ==
    /\ Cycle(Input(t, 4, videoTime + DisplayStepMs, "live", result, NoValue))
    /\ run' = RunAfter(run, labelStabilizer, cycle'.how, cycle'.rawLabel, t)
    /\ UNCHANGED <<call, alt>>
    /\ UNCHANGED loopVars

DisplayCycle ==
    \E result \in DisplayResults :
        /\ videoTime + DisplayStepMs <= MaxDisplayFrames * DisplayStepMs
        /\ PlayingCycle(IF cycle.how = "none" THEN DisplayStartMs
                        ELSE now + DisplayStepMs, result)

DisplayNext == DisplayCycle

SpecDisplay == GateInit /\ [][DisplayNext]_vars

\* the last cycle took the blendshape vector, and what the blendshapes said
BlendshapeCycle == cycle.how = "classified" /\ cycle.source = "blendshapes"
CycleBlendshapes == GetBlendshapeDebug(CategoriesOf(cycle.result))

\* C21: in a blendshape-sourced cycle whose label is SCREAM, with jawOpen at
\* least 0.35, mouthFunnel at least 0.01 and mouthSmile at most 0.45, the
\* tongue detector fires and the raw label is FREAKY, even when the tongue
\* score is below 0.2.
C21_ScreamProxyGivesFreaky ==
    (/\ BlendshapeCycle
     /\ cycle.classified = "SCREAM"
     /\ CycleBlendshapes.jawOpen >= 350
     /\ CycleBlendshapes.mouthFunnel >= 10
     /\ CycleBlendshapes.mouthSmile <= 450)
      => cycle.rawLabel = "FREAKY"

\* the last cycle reached the stabilizer
StabilizedCycle == cycle.how = "classified"
\* the toothy indicator of the last cycle, from what the cycle was given
\* (blendshapes) or from the smoothed mouthOpen and the extremes it left
\* (landmarks)
CycleToothy ==
    IF cycle.source = "blendshapes"
    THEN \/ BlendMouthUpperUp(CategoriesOf(cycle.result)) > 250
         \/ CycleBlendshapes.jawOpen > 150
    ELSE 100 * app.smoother.smoothers.mouthOpen >
            100 * app.extremes.min.mouthOpen
              + 60 * (app.extremes.max.mouthOpen - app.extremes.min.mouthOpen)

C29_HeldCycleKeepsDisplay ==
    [][ (/\ cycle.how = "classified"
         /\ cycle.detected
         /\ cycle'.how # "none"
         /\ ~cycle'.detected
         /\ now' - cycle.lastFaceAt < FACE_HOLD_MS
         /\ app'.lastFaceState)
          => /\ labelStabilizer'.current = labelStabilizer.current
             /\ labelStabilizer'.pending = labelStabilizer.pending
             /\ labelStabilizer'.pendingFrames = labelStabilizer.pendingFrames
             /\ app'.selectedKey = app.selectedKey ]_vars

\* C30: the extremes tracker and the calibration accumulator are changed
\* only by landmark-sourced cycles: a blendshape-sourced cycle, an ABSENT
\* cycle and a no-signals cycle leave the extremes' min and max, the
\* snapshots, the calibration count and the baseline as they were.
C30_OnlyLandmarkCyclesTrack ==
    [][ (\/ cycle'.how \in {"absent", "noSignals"}
         \/ cycle'.how = "classified" /\ cycle'.source = "blendshapes")
          => /\ app'.extremes = app.extremes
             /\ app'.calibration = app.calibration ]_vars

\* a blendshape-sourced cycle after landmark cycles have filled the tracker
\* and the accumulator
C30_Witness ==
    /\ BlendshapeCycle
    /\ app.extremes.min # NullSignals
    /\ app.extremes.maxMouthOpen # NullSignals
    /\ app.calibration.count > 0

(***************************************************************************)
(* The end-to-end run: a fresh session, the video ready and playing, the   *)
(* track live; the first cycle comes at a multiple of 40 ms up to 1000 ms  *)
(* after the time origin, the others 80 ms apart; every result is a face   *)
(* whose only blendshape score is jawOpen = 0.4; no tongue score.          *)
(***************************************************************************)
ScreamFrames == 6
ScreamStartStepMs == 40
MaxScreamStart == 25
ScreamStarts == { k * ScreamStartStepMs : k \in 0..MaxScreamStart }

ScreamCycle ==
    /\ videoTime + DisplayStepMs <= ScreamFrames * DisplayStepMs
    /\ \E t0 \in ScreamStarts :
          PlayingCycle(IF cycle.how = "none" THEN t0 ELSE now + DisplayStepMs,
                       ScreamResult)

ScreamNext == ScreamCycle

SpecScream == GateInit /\ [][ScreamNext]_vars

\* C23: a fresh session, video ready and track live; six consecutive cycles
\* 80 ms apart, the first at any non-negative timestamp, each a detected
\* face with jawOpen = 0.4 and every other score 0, no tongue detection:
\* the displayed key ends as "scream".
C23_SixScreamFramesShowScream ==
    (run.label = "SCREAM" /\ run.len >= ScreamFrames)
      => app.selectedKey = "scream"

(***************************************************************************)
(* Two runs of the handler on the same results and timestamps.  The first  *)
(* starts as App mounts; the second starts with a calibration accumulator  *)
(* of another count and baseline.  Cycles are as in the display sessions.  *)
(***************************************************************************)
MaxTwinFrames == 5
TwinCounts == {0, 5, 14, 15}
TwinBaselines == {Signals(1000, 0, 0, 0), Signals(900, 300, 500, 100)}
TwinCalibrations ==
    { [count |-> n, baseline |-> b] : n \in TwinCounts, b \in TwinBaselines }

TwinInit ==
    /\ NoLoop
    /\ AppIdle
    /\ calc = NoCalc
    /\ labelStabilizer = ResetLabelStabilizer
    /\ call = NoCall
    /\ run = NoRun
    /\ alt = NoAlt
    /\ \E c \in TwinCalibrations :
          twin = [NoTwin EXCEPT !.app.calibration = c]

TwinCycle ==
    \E result \in DisplayResults :
        LET t == IF cycle.how = "none" THEN DisplayStartMs
                 ELSE now + DisplayStepMs
            in == Input(t, 4, videoTime + DisplayStepMs, "live", result,
                        NoValue)
        IN  /\ videoTime + DisplayStepMs <= MaxTwinFrames * DisplayStepMs
            /\ RunCycle(in)
            /\ \E out \in {OnResult(twin.app, twin.stab, in)} :
                  twin' = [app |-> out.app, stab |-> out.stab,
                           how |-> out.how, rawLabel |-> out.rawLabel]
            /\ UNCHANGED <<call, run, alt, calc, mount>>
            /\ UNCHANGED loopVars

TwinNext == TwinCycle

SpecTwin == TwinInit /\ [][TwinNext]_vars

\* C24: the calibration accumulator never influences the outcome of a
\* cycle: two runs fed the same results and timestamps but started with
\* different calibration count and baseline have the same raw label, the
\* same stabilized label and the same displayed key in every cycle.
C24_CalibrationNeverInfluences ==
    /\ twin.how = cycle.how
    /\ twin.rawLabel = cycle.rawLabel
    /\ GetCurrent(twin.stab) = GetCurrent(labelStabilizer)
    /\ twin.app.selectedKey = app.selectedKey

\* a landmark cycle in which the runs differ in count, baseline and the
\* calibrated flag, and the range classifier's label is not NEUTRAL
C24_Witness ==
    /\ cycle.how = "classified"
    /\ cycle.source = "landmarks"
    /\ cycle.rawLabel # "NEUTRAL"
    /\ twin.app.calibration.count # app.calibration.count
    /\ twin.app.calibration.baseline # app.calibration.baseline
    /\ twin.app.calibrated # app.calibrated

(***************************************************************************)
(* EmaSmoother alone: one smoother with alpha 0.001, 0.25, 0.35 or 1, fed  *)
(* up to five samples.  `calc` holds the smoother (alpha, value) and the   *)
(* history of its calls: how many, the last sample and output, the output  *)
(* before it, and whether every sample so far was the same.                *)
(***************************************************************************)
MaxEmaCalls == 5
DefaultAlpha == 350
EmaAlphas == {1, SmootherAlpha, DefaultAlpha, 1000}
EmaSamples == {0, 1, 400, 1000}

\* new EmaSmoother(alpha)
EmaSmoother(alpha) ==
    [op |-> "EmaSmoother", alpha |-> alpha, value |-> NoValue, n |-> 0,
     next |-> NoValue, ret |-> NoValue, prev |-> NoValue, same |-> TRUE]

EmaInit ==
    /\ Quiet
    /\ \E alpha \in EmaAlphas : calc = EmaSmoother(alpha)

CallEmaUpdate ==
    \E next \in EmaSamples :
        /\ calc.n < MaxEmaCalls
        /\ calc' = [calc EXCEPT
                      !.value = EmaUpdate(calc.alpha, calc.value, next),
                      !.n = calc.n + 1,
                      !.next = next,
                      !.ret = EmaUpdate(calc.alpha, calc.value, next),
                      !.prev = calc.ret,
                      !.same = calc.same /\ (calc.n = 0 \/ next = calc.next)]
        /\ UNCHANGED QuietVars

EmaNext == CallEmaUpdate

SpecEma == EmaInit /\ [][EmaNext]_vars

\* C25: with alpha in (0, 1], the first update of an EmaSmoother returns its
\* input; every later update returns alpha * x + (1 - alpha) * state, which
\* lies between the previous output and x, ends included; on a constant
\* input c every output is c.
C25_EmaConvexCombination ==
    calc.n >= 1
      => /\ calc.n = 1 => calc.ret = calc.next
         /\ calc.n > 1 =>
               /\ calc.ret = (calc.alpha * calc.next
                                + (1000 - calc.alpha) * calc.prev) \div 1000
               /\ Min(calc.prev, calc.next) <= calc.ret
               /\ calc.ret <= Max(calc.prev, calc.next)
         /\ calc.same => calc.ret = calc.next
         /\ calc.value = calc.ret

\* a later update whose output is strictly between the previous output and
\* the sample
C25_Witness ==
    /\ calc.n >= 3
    /\ calc.alpha < 1000
    /\ calc.prev < calc.ret
    /\ calc.ret < calc.next

(***************************************************************************)
(* SignalSmoother alone: up to three updates with vectors that have        *)
(* mouthOpen, smile, or both.  `calc` holds the smoother, the last vector  *)
(* and output, the keys seen before the last call, and for every key a     *)
(* lone EmaSmoother's value after the samples the key was given.           *)
(***************************************************************************)
MaxSmootherCalls == 3
SmootherSamples == {0, 400, 1000}
SmootherVectors ==
    { [mouthOpen |-> a] : a \in SmootherSamples }
      \cup { [smile |-> a] : a \in SmootherSamples }
      \cup { [mouthOpen |-> a, smile |-> b] :
               a \in SmootherSamples, b \in SmootherSamples }

SmootherInit ==
    /\ Quiet
    /\ \E alpha \in {SmootherAlpha, DefaultAlpha} :
          calc = [op |-> "SignalSmoother", sm |-> SignalSmoother(alpha),
                  n |-> 0, signals |-> <<>>, output |-> <<>>, seen |-> {},
                  alone |-> [k \in SignalKeys |-> NoValue]]

CallSmootherUpdate ==
    \E signals \in SmootherVectors :
        /\ calc.n < MaxSmootherCalls
        /\ calc' = [calc EXCEPT
                      !.sm = SmootherAfter(calc.sm, signals),
                      !.n = calc.n + 1,
                      !.signals = signals,
                      !.output = SmootherOutput(calc.sm, signals),
                      !.seen = calc.seen \cup DOMAIN calc.signals,
                      !.alone = [k \in SignalKeys |->
                                   IF k \in DOMAIN signals
                                   THEN EmaUpdate(calc.sm.alpha, calc.alone[k],
                                                  signals[k])
                                   ELSE calc.alone[k]]]
        /\ UNCHANGED QuietVars

SmootherNext == CallSmootherUpdate

SpecSmoother == SmootherInit /\ [][SmootherNext]_vars

\* C26: the output of SignalSmoother.update has exactly the keys of the
\* input; a key's output depends only on that key's own values so far
\* (it is what a lone EmaSmoother fed those values returns); a key not seen
\* before is returned unchanged.
C26_KeysSmoothedIndependently ==
    calc.n >= 1
      => /\ DOMAIN calc.output = DOMAIN calc.signals
         /\ \A k \in DOMAIN calc.signals :
               /\ calc.output[k] = calc.alone[k]
               /\ k \notin calc.seen => calc.output[k] = calc.signals[k]

\* smile arrives for the first time after mouthOpen has a history: it is
\* returned as given while mouthOpen is smoothed
C26_Witness ==
    /\ calc.n >= 2
    /\ DOMAIN calc.signals = {"mouthOpen", "smile"}
    /\ calc.seen = {"mouthOpen"}
    /\ calc.output.smile = calc.signals.smile
    /\ calc.output.mouthOpen # calc.signals.mouthOpen
    /\ calc.output.smile # calc.output.mouthOpen

(***************************************************************************)
(* new LabelStabilizer(initial) beside new LabelStabilizer(initial, 5, 600)*)
(* given the same updates; `twin` holds the second.                        *)
(***************************************************************************)
DefaultInit ==
    /\ NoLoop
    /\ AppIdle
    /\ calc = NoCalc
    /\ labelStabilizer =
          LabelStabilizer(StabInitial, DefaultStableFrames, DefaultCooldownMs)
    /\ twin = [NoTwin EXCEPT
                 !.stab = LabelStabilizer(StabInitial, AppStableFrames,
                                          AppCooldownMs)]
    /\ call = NoCall
    /\ run = NoRun
    /\ alt = NoAlt

DefaultUpdate ==
    \E label \in StabLabels, nowMs \in StabTimes :
        LET s == Update(labelStabilizer, label, nowMs)
            t == Update(twin.stab, label, nowMs)
        IN  /\ s.pendingFrames <= MaxFrames
            /\ t.pendingFrames <= MaxFrames
            /\ labelStabilizer' = s
            /\ twin' = [twin EXCEPT !.stab = t]
            /\ call' = [op |-> "update", label |-> label, nowMs |-> nowMs,
                        ret |-> s.current,
                        switched |-> call.switched
                                       \/ s.current # labelStabilizer.current,
                        switchedAt |-> IF s.current # labelStabilizer.current
                                       THEN nowMs ELSE call.switchedAt]
            /\ run' = NextRun(run, labelStabilizer, label, nowMs)
            /\ alt' = NextAlt(alt, label)
            /\ UNCHANGED loopVars
            /\ UNCHANGED <<now, videoTime, app, cycle, calc, mount>>

DefaultNext == DefaultUpdate

SpecDefault == DefaultInit /\ [][DefaultNext]_vars

\* C27: a LabelStabilizer constructed with only its initial label behaves
\* with stableFrames = 5 and cooldownMs = 600: every update returns what
\* the same update returns on one constructed with (initial, 5, 600).
C27_DefaultIsFiveSixHundred ==
    call.op = "update" => call.ret = GetCurrent(twin.stab)

\* C28: an update whose label equals `current` clears the candidate
\* (pending none, pendingFrames 0); an update whose label differs from both
\* `current` and `pending` makes it the candidate with pendingFrames 1; in
\* both cases `current` and lastSwitchAt are unchanged and the old `current`
\* is returned; getCurrent changes no field.
C28_UpdatesThatCannotCommit ==
    [][ /\ (call'.op = "update" /\ call'.label = labelStabilizer.current)
            => /\ labelStabilizer'.pending = Null
               /\ labelStabilizer'.pendingFrames = 0
               /\ labelStabilizer'.current = labelStabilizer.current
               /\ labelStabilizer'.lastSwitchAt = labelStabilizer.lastSwitchAt
               /\ call'.ret = labelStabilizer.current
        /\ (call'.op = "update"
              /\ call'.label # labelStabilizer.current
              /\ call'.label # labelStabilizer.pending)
            => /\ labelStabilizer'.pending = call'.label
               /\ labelStabilizer'.pendingFrames = 1
               /\ labelStabilizer'.current = labelStabilizer.current
               /\ labelStabilizer'.lastSwitchAt = labelStabilizer.lastSwitchAt
               /\ call'.ret = labelStabilizer.current
        /\ call'.op = "getCurrent"
            => /\ labelStabilizer' = labelStabilizer
               /\ call'.ret = labelStabilizer.current ]_vars

\* after a switch at an earlier time, an update repeats the new `current`:
\* nothing is pending and the switch time stands
C28_Witness ==
    /\ call.op = "update"
    /\ call.label = labelStabilizer.current
    /\ labelStabilizer.current # StabInitial
    /\ labelStabilizer.lastSwitchAt > 0
    /\ labelStabilizer.lastSwitchAt # call.nowMs
    /\ labelStabilizer.pending = Null
    /\ labelStabilizer.pendingFrames = 0

(***************************************************************************)
(* More of the stabilizer alone (SpecStab).                                *)
(***************************************************************************)
\* C32: when a pending label reaches stableFrames consecutive updates while
\* the cooldown is not yet satisfied, the candidate is not discarded:
\* pendingFrames grows on each further matching update, and the switch is
\* committed on the first later matching update at which
\* nowMs - lastSwitchAt >= cooldownMs.
C32_StableCandidateWaitsForCooldown ==
    [][ (/\ call'.op = "update"
         /\ call'.label = labelStabilizer.pending
         /\ call'.label # labelStabilizer.current
         /\ labelStabilizer.pendingFrames + 1 >= labelStabilizer.stableFrames)
          => IF call'.nowMs - labelStabilizer.lastSwitchAt
                  >= labelStabilizer.cooldownMs
             THEN /\ labelStabilizer'.current = call'.label
                  /\ call'.ret = call'.label
             ELSE /\ labelStabilizer'.current = labelStabilizer.current
                  /\ labelStabilizer'.pending = labelStabilizer.pending
                  /\ labelStabilizer'.pendingFrames
                        = labelStabilizer.pendingFrames + 1
                  /\ call'.ret = labelStabilizer.current ]_vars

\* a label was repeated more than stableFrames times, the earlier repeats
\* before the cooldown had passed, and the last one committed the switch
C32_Witness ==
    /\ call.op = "update"
    /\ run.label = call.label
    /\ run.len > labelStabilizer.stableFrames
    /\ ~run.ok
    /\ run.startCurrent # labelStabilizer.current
    /\ labelStabilizer.current = call.label
    /\ labelStabilizer.lastSwitchAt = call.nowMs

\* C34: in every state of a LabelStabilizer reachable by updates, pending is
\* none or a label different from current; pendingFrames is 0 exactly when
\* pending is none and at least 1 otherwise; lastSwitchAt is 0 (no switch
\* yet) or the nowMs of the update that last changed current.
C34_StabilizerStateShape ==
    /\ labelStabilizer.pending # Null
          => labelStabilizer.pending # labelStabilizer.current
    /\ labelStabilizer.pendingFrames = 0 <=> labelStabilizer.pending = Null
    /\ labelStabilizer.pendingFrames >= 0
    /\ labelStabilizer.lastSwitchAt
          = IF call.switched THEN call.switchedAt ELSE 0

\* after a switch, a new candidate is counted
C34_Witness ==
    /\ call.switched
    /\ labelStabilizer.lastSwitchAt > 0
    /\ labelStabilizer.pending # Null
    /\ labelStabilizer.pendingFrames >= 2

\* C35: any two updates that change `current` are at least cooldownMs apart,
\* and as lastSwitchAt starts at 0 a fresh stabilizer commits no switch at an
\* update with nowMs < cooldownMs, however many matching labels it was given.
C35_SwitchesCooldownApart ==
    [][ labelStabilizer'.current # labelStabilizer.current
          => /\ call'.nowMs >= labelStabilizer.cooldownMs
             /\ call.switched
                  => call'.nowMs - call.switchedAt
                        >= labelStabilizer.cooldownMs ]_vars

\* a second switch, and a run of matching labels longer than stableFrames
\* behind it
C35_Witness ==
    /\ call.op = "update"
    /\ call.switched
    /\ call.switchedAt = call.nowMs
    /\ labelStabilizer.current = call.label
    /\ run.len > labelStabilizer.stableFrames
    /\ run.startCurrent # StabInitial

(***************************************************************************)
(* More of the display sessions (SpecDisplay).                             *)
(***************************************************************************)
\* the last cycle took the landmark vector
LandmarkCycle == cycle.how = "classified" /\ cycle.source = "landmarks"
\* the smoothed vector of the last cycle
CycleSmoothed == app.smoother.smoothers

\* C33: after a landmark-sourced cycle min <= max for each signal and the
\* smoothed sample classified in the cycle lies within [min, max]; over a
\* session each min is non-increasing and each max non-decreasing, and no
\* operation shrinks the range.
C33_ExtremesEncloseSample ==
    /\ [](/\ app.extremes.min # NullSignals <=> app.extremes.max # NullSignals
          /\ app.extremes.min # NullSignals
               => \A k \in SignalKeys :
                     app.extremes.min[k] <= app.extremes.max[k]
          /\ LandmarkCycle
               => /\ app.extremes.min # NullSignals
                  /\ \A k \in SignalKeys :
                        /\ app.extremes.min[k] <= CycleSmoothed[k]
                        /\ CycleSmoothed[k] <= app.extremes.max[k])
    /\ [][ app.extremes.min # NullSignals
             => /\ app'.extremes.min # NullSignals
                /\ \A k \in SignalKeys :
                      /\ app'.extremes.min[k] <= app.extremes.min[k]
                      /\ app'.extremes.max[k] >= app.extremes.max[k] ]_vars

\* a landmark cycle whose sample is strictly inside a range that has opened
\* in both directions
C33_Witness ==
    /\ LandmarkCycle
    /\ app.extremes.min.mouthOpen < CycleSmoothed.mouthOpen
    /\ CycleSmoothed.mouthOpen < app.extremes.max.mouthOpen

\* C38: in a landmark-sourced cycle the label SMILE of classifyFromRanges
\* and the toothy indicator exclude each other, so a "grin" key on the
\* landmark path appears only while the stabilized label is SMILE and the
\* raw label of the cycle is not SMILE.
C38_SmileExcludesToothy ==
    LandmarkCycle
      => /\ ~(cycle.classified = "SMILE" /\ app.toothySmile)
         /\ app.selectedKey = "grin"
              => /\ labelStabilizer.current = "SMILE"
                 /\ cycle.rawLabel # "SMILE"

\* classifyFromRanges returns SMILE in a landmark cycle
C38_Witness ==
    /\ LandmarkCycle
    /\ cycle.classified = "SMILE"
    /\ cycle.rawLabel = "SMILE"
    /\ ~app.toothySmile

\* C39: the smoothed vector classified in a cycle is an exponential average
\* over samples of that cycle's own source only: a blendshape cycle's
\* smoothed mouthOpen, smile and eyeOpen do not depend on landmark samples
\* of earlier cycles, nor a landmark cycle's on blendshape samples.
C39_SmoothedPerSource ==
    StabilizedCycle
      => \A k \in {"mouthOpen", "smile", "eyeOpen"} :
            CycleSmoothed[k] = cycle.alone[cycle.source].smoothers[k]

(***************************************************************************)
(* Calibration: sessions of up to 17 cycles as in the display sessions,    *)
(* every result a face, with landmarks alone or with blendshapes that say  *)
(* "jaw wide open".                                                        *)
(***************************************************************************)
MaxCalibrationFrames == 17
CalibrationResults == {ClosedResult, ScreamResult}

CalibrationCycle ==
    \E result \in CalibrationResults :
        /\ videoTime + DisplayStepMs <= MaxCalibrationFrames * DisplayStepMs
        /\ PlayingCycle(IF cycle.how = "none" THEN DisplayStartMs
                        ELSE now + DisplayStepMs, result)

CalibrationNext == CalibrationCycle

SpecCalibration == GateInit /\ [][CalibrationNext]_vars

\* C31: the calibration accumulator takes at most 15 samples per session:
\* its count never exceeds 15; each of the first 15 landmark-sourced cycles
\* replaces the baseline by (oldMean * n + sample) / (n + 1) for each
\* signal; from the 16th on count and baseline never change; the calibrated
\* flag, once true (15th sample or any blendshape-sourced cycle), never
\* returns to false.
C31_CalibrationTakesFifteen ==
    /\ [](/\ app.calibration.count <= 15
          /\ app.calibration.count = 15 => app.calibrated
          /\ BlendshapeCycle => app.calibrated)
    /\ [][ /\ (cycle'.how = "classified" /\ cycle'.source = "landmarks")
               => IF app.calibration.count < 15
                  THEN /\ app'.calibration.count = app.calibration.count + 1
                       /\ \A k \in SignalKeys :
                             app'.calibration.baseline[k] =
                                (app.calibration.baseline[k]
                                     * app.calibration.count
                                   + app'.smoother.smoothers[k])
                                  \div (app.calibration.count + 1)
                  ELSE app'.calibration = app.calibration
           /\ app.calibrated => app'.calibrated ]_vars

\* the seventeenth cycle of a session is a landmark cycle that finds the
\* accumulator full: at least the 16th landmark cycle
C31_Witness ==
    /\ LandmarkCycle
    /\ videoTime = MaxCalibrationFrames * DisplayStepMs
    /\ app.calibration.count = 15
    /\ app.calibrated

(***************************************************************************)
(* memes/memeRegistry.ts (in src/unnamed/part_001, lines 33-63) and the    *)
(* asset App shows, getMeme(selectedKey).  Sessions are as the display     *)
(* sessions, of up to six cycles; a result is a face with landmarks alone  *)
(* and the lips 0.103 of the face height apart, with or without a colour-  *)
(* sampling tongue score of 0.25, or a face whose blendshapes say jaw wide *)
(* open, smile or squint.                                                  *)
(***************************************************************************)
DEFAULT_MEME_KEY == "neutral"

Image(key, src) == [key |-> key, type |-> "image", src |-> src]

MEMES ==
    [ neutral    |-> Image("neutral", "/memes/neutral.jpeg"),
      smile      |-> Image("smile", "/memes/smile.jpg"),
      grin       |-> Image("grin", "/memes/grin.png"),
      scream     |-> Image("scream", "/memes/scream.png"),
      judging    |-> Image("judging", "/memes/judging.jpg"),
      tilt_left  |-> Image("tilt_left", "/memes/tilt_left.jpg"),
      tilt_right |-> Image("tilt_right", "/memes/tilt_right.jpeg"),
      look_left  |-> Image("look_left", "/memes/look_left.png"),
      look_right |-> Image("look_right", "/memes/look_right.jpg"),
      look_up    |-> Image("look_up", "/memes/look_up.jpeg"),
      look_down  |-> Image("look_down", "/memes/look_down.png") ]

\* getMeme(key) = MEMES[key] ?? MEMES[DEFAULT_MEME_KEY]
GetMeme(key) ==
    IF key \in DOMAIN MEMES THEN MEMES[key] ELSE MEMES[DEFAULT_MEME_KEY]

\* line 875: currentMemeAsset
CurrentMemeAsset == GetMeme(app.selectedKey)

MaxMemeFrames == 6
TongueScore == 250
SquintResult ==
    Result(<<FaceNeutral>>, <<[categories |-> <<Category("eyeSquintLeft", 600), Category("eyeSquintRight", 600)>>]>>)
LipsApartResult == Result(<<Face(31, 800, 700)>>, <<>>)
MemeInputs ==
    { <<LipsApartResult, TongueScore>>, <<LipsApartResult, NoValue>>,
      <<ScreamResult, NoValue>>, <<SmileResult, NoValue>>,
      <<SquintResult, NoValue>> }

MemeCycle ==
    \E given \in MemeInputs :
        LET t == IF cycle.how = "none" THEN DisplayStartMs
                 ELSE now + DisplayStepMs
        IN  /\ videoTime + DisplayStepMs <= MaxMemeFrames * DisplayStepMs
            /\ Cycle(Input(t, 4, videoTime + DisplayStepMs, "live", given[1],
                           given[2]))
            /\ run' = RunAfter(run, labelStabilizer, cycle'.how,
                               cycle'.rawLabel, t)
            /\ UNCHANGED <<call, alt>>
            /\ UNCHANGED loopVars

MemeNext == MemeCycle

SpecMeme == GateInit /\ [][MemeNext]_vars

\* the keys the pipeline can produce
PipelineKeys == {"neutral", "smile", "grin", "scream", "judging", "freaky"}

\* C37: every asset key the pipeline can produce ("neutral", "smile",
\* "grin", "scream", "judging", "freaky") resolves through getMeme to a
\* registry asset whose key is that same key; getMeme returns the "neutral"
\* asset only for keys outside that set; mapExpressionToMeme maps every
\* label, an unknown one too, to one of these keys.
C37_EveryKeyHasItsAsset ==
    /\ app.selectedKey \in PipelineKeys
    /\ CurrentMemeAsset.key = app.selectedKey
    /\ CurrentMemeAsset = MEMES[DEFAULT_MEME_KEY]
          => app.selectedKey \notin (PipelineKeys \ {DEFAULT_MEME_KEY})
    /\ \A label \in ExpressionLabel \cup {"UNKNOWN"} :
          MapExpressionToMeme(label) \in PipelineKeys

(***************************************************************************)
(* The mount of App: the Start button, the effect of [started], the        *)
(* cleanup at unmount, and onVideoReady, which HiddenCamera calls when the *)
(* camera plays and which suspends at `await createFaceLandmarker()` while *)
(* landmarkerRef is null.  A loop is the closure startFaceLoop made: it is *)
(* active until its stop function has run.  stopLoopRef holds the number   *)
(* of the loop whose stop function it refers to, 0 for null.               *)
(***************************************************************************)
\* calls of onVideoReady in one mount
MaxVideoReady == 4

\* the loops whose `stopped` is false: their timer is set and tick will run
ActiveLoops == { i \in DOMAIN mount.loops : ~mount.loops[i].stopped }

\* `stopLoopRef.current()`: the stop function of the loop the ref holds
StopLoopRefCurrent(m) ==
    IF m.stopLoopRef # 0
    THEN [m EXCEPT !.loops[m.stopLoopRef].stopped = TRUE]
    ELSE m

\* onVideoReady from after the await: stop the loop the ref holds, start a
\* loop and store its stop function
StartLoopAfterAwait(m) ==
    LET stoppedOld == StopLoopRefCurrent(m)
    IN  [stoppedOld EXCEPT
           !.loops = Append(@, [stopped |-> FALSE,
                                mountedAtStart |-> m.mounted]),
           !.stopLoopRef = Len(m.loops) + 1]

\* handleStart to its end: `setStarted(true)`, which schedules the effect
HandleStart ==
    /\ mount.mounted
    /\ ~mount.started
    /\ mount' = [mount EXCEPT !.started = TRUE, !.effect = TRUE]

\* the effect of [started]: after the mount and after `started` changed
StopLoopEffect ==
    /\ mount.mounted
    /\ mount.effect
    /\ mount' = [(IF ~mount.started /\ mount.stopLoopRef # 0
                  THEN [StopLoopRefCurrent(mount) EXCEPT !.stopLoopRef = 0]
                  ELSE mount)
                 EXCEPT !.effect = FALSE]

\* HiddenCamera calls onVideoReady (its effect not cancelled): with a
\* landmarker the body runs to its end, without one it suspends at the await
VideoReady ==
    /\ mount.mounted
    /\ mount.started
    /\ mount.calls < MaxVideoReady
    /\ mount' = IF mount.landmarkerRef
                THEN [StartLoopAfterAwait(mount) EXCEPT !.calls = @ + 1]
                ELSE [mount EXCEPT !.calls = @ + 1, !.awaiting = @ + 1]

\* createFaceLandmarker resolves for one suspended call, which runs to its end
LandmarkerCreated ==
    /\ mount.awaiting > 0
    /\ mount' = StartLoopAfterAwait(
                  [mount EXCEPT !.awaiting = @ - 1, !.landmarkerRef = TRUE])

\* createFaceLandmarker rejects for one suspended call: the catch sets status
LandmarkerFailed ==
    /\ mount.awaiting > 0
    /\ mount' = [mount EXCEPT !.awaiting = @ - 1]

\* the cleanup of the effect of []: the component unmounts
Unmount ==
    /\ mount.mounted
    /\ mount' = [(IF mount.stopLoopRef # 0
                  THEN [StopLoopRefCurrent(mount) EXCEPT !.stopLoopRef = 0]
                  ELSE mount)
                 EXCEPT !.mounted = FALSE]

MountVars ==
    <<labelStabilizer, call, run, alt, stopped, timeoutId, timers,
      nextTimerId, pc, loopLog, now, videoTime, app, cycle, calc, twin>>

MountNext ==
    \/ (HandleStart /\ UNCHANGED MountVars)
    \/ (StopLoopEffect /\ UNCHANGED MountVars)
    \/ (VideoReady /\ UNCHANGED MountVars)
    \/ (LandmarkerCreated /\ UNCHANGED MountVars)
    \/ (LandmarkerFailed /\ UNCHANGED MountVars)
    \/ (Unmount /\ UNCHANGED MountVars)

SpecMount == GateInit /\ [][MountNext]_vars

\* C36: under every interleaving of calls of onVideoReady (each suspending
\* at the await), of the effect that stops the loop and of the unmount, at
\* most one loop is active at any time, and once the component has
\* unmounted no loop is active and none has been started since
C36_OneLoopNoneAfterUnmount ==
    /\ Cardinality(ActiveLoops) <= 1
    /\ ~mount.mounted => ActiveLoops = {}
    /\ \A i \in DOMAIN mount.loops : mount.loops[i].mountedAtStart

\* the half of C36 that the code keeps: never two active loops
C36_AtMostOneLoop == Cardinality(ActiveLoops) <= 1

(***************************************************************************)
(* Preloading (preloadMemes.ts).  preloadAllMemes makes one promise per    *)
(* asset in one synchronous pass, so all timers are set at clock 0.  A     *)
(* promise record keeps the closure of preloadMeme: `settled`, whether the *)
(* timer is still set, whether the video's handlers are still attached,    *)
(* and the state of the promise itself; `calls` counts the calls of        *)
(* resolve and reject, `cause` and `settledAt` say what settled it and     *)
(* when, `events` and `late` count the element's events and those that     *)
(* arrived after the settlement.                                           *)
(***************************************************************************)
TIMEOUT_MS == 7000

\* assets in one list, events per element, steps of the clock
MaxAssets == 2
MaxPreloadEvents == 2
ClockStepMs == 3500
MaxClockTicks == 3

\* MemeAsset.type
AssetTypes == {"image", "video"}

\* `video.readyState` at line 84: the element was made at line 53 and its
\* src set at line 57 in the same task, nothing of it is loaded yet
NewVideoReadyState == 0

\* `new Promise(...)` down to the timer of lines 29-32
NewPromise(type) ==
    [type |-> type, settled |-> FALSE, state |-> "pending", timer |-> TRUE,
     handlers |-> TRUE, calls |-> 0, cause |-> "none", settledAt |-> NullTime,
     events |-> 0, late |-> 0]

\* resolve() or reject() of the promise: only a pending promise changes
Settle(p, state, cause, at) ==
    IF p.state = "pending"
    THEN [p EXCEPT !.state = state, !.cause = cause, !.settledAt = at,
                   !.calls = @ + 1]
    ELSE [p EXCEPT !.calls = @ + 1]

\* finishResolve without `if (settled) return`
FinishResolveUnguarded(p, cause, at) ==
    Settle([p EXCEPT !.settled = TRUE], "fulfilled", cause, at)

FinishResolve(p, cause, at) ==
    IF p.settled THEN p
    ELSE Settle([p EXCEPT !.settled = TRUE], "fulfilled", cause, at)

FinishReject(p, cause, at) ==
    IF p.settled THEN p
    ELSE Settle([p EXCEPT !.settled = TRUE], "rejected", cause, at)

ClearTimer(p) == [p EXCEPT !.timer = FALSE]

Cleanup(p) == [p EXCEPT !.handlers = FALSE]

\* the callback of the timer: the timer is no longer set once it has run
OnTimeout(p, at) == FinishResolve([p EXCEPT !.timer = FALSE], "timeout", at)

ImgOnload(p, at) == FinishResolve(ClearTimer(p), "load", at)

ImgOnerror(p, at) == FinishReject(ClearTimer(p), "error", at)

VideoOncanplaythrough(p, at) ==
    FinishResolve(ClearTimer(Cleanup(p)), "canplaythrough", at)

VideoOnerror(p, at) == FinishReject(ClearTimer(Cleanup(p)), "error", at)

TryResolve(p, readyState, at) ==
    IF readyState >= 3
    THEN FinishResolve(ClearTimer(Cleanup(p)), "readyState", at)
    ELSE p

PreloadMeme(type) ==
    IF type = "image"
    THEN NewPromise(type)
    ELSE TryResolve(NewPromise(type), NewVideoReadyState, 0)

\* the events an element of this type can fire that preloadMeme listens to
EventsOf(type) ==
    IF type = "image" THEN {"load", "error"} ELSE {"canplaythrough", "error"}

\* the element fires an event: its handler runs if one is attached
Dispatch(p, kind, at) ==
    LET q == [p EXCEPT !.events = @ + 1,
                       !.late = IF p.state # "pending" THEN @ + 1 ELSE @]
    IN  CASE p.type = "image" /\ kind = "load" -> ImgOnload(q, at)
          [] p.type = "image" /\ kind = "error" -> ImgOnerror(q, at)
          [] p.type = "video" /\ ~p.handlers -> q
          [] p.type = "video" /\ kind = "canplaythrough" ->
                VideoOncanplaythrough(q, at)
          [] OTHER -> VideoOnerror(q, at)

AssetLists == UNION { [1..n -> AssetTypes] : n \in 0..MaxAssets }

\* preloadAllMemes(assets) down to the await of line 89
PreloadInit ==
    /\ NoLoop
    /\ AppIdle
    /\ labelStabilizer = ResetLabelStabilizer
    /\ call = NoCall
    /\ run = NoRun
    /\ alt = NoAlt
    /\ twin = NoTwin
    /\ \E assets \in AssetLists :
          calc = [op |-> "preloadAllMemes", args |-> <<assets>>,
                  done |-> FALSE, threw |-> FALSE, ret |-> Null,
                  clock |-> 0, failures |-> 0,
                  promises |-> [i \in DOMAIN assets |->
                                  PreloadMeme(assets[i])]]

PreloadTick ==
    /\ calc.clock + ClockStepMs <= MaxClockTicks * ClockStepMs
    /\ calc' = [calc EXCEPT !.clock = @ + ClockStepMs]

PreloadEvent ==
    \E i \in DOMAIN calc.promises :
        \E kind \in EventsOf(calc.promises[i].type) :
            /\ calc.promises[i].events < MaxPreloadEvents
            /\ calc' = [calc EXCEPT
                          !.promises[i] = Dispatch(@, kind, calc.clock)]

\* a timer that is still set fires once TIMEOUT_MS have passed
PreloadTimeout ==
    \E i \in DOMAIN calc.promises :
        /\ calc.promises[i].timer
        /\ calc.clock >= TIMEOUT_MS
        /\ calc' = [calc EXCEPT !.promises[i] = OnTimeout(@, calc.clock)]

\* Promise.allSettled has every promise settled: lines 89-95 run, the
\* promise of preloadAllMemes resolves
PreloadAllSettled ==
    /\ ~calc.done
    /\ \A i \in DOMAIN calc.promises : calc.promises[i].state # "pending"
    /\ calc' = [calc EXCEPT
                  !.done = TRUE,
                  !.failures =
                     Cardinality({ i \in DOMAIN calc.promises :
                                     calc.promises[i].state = "rejected" })]

PreloadVars ==
    <<labelStabilizer, call, run, alt, stopped, timeoutId, timers,
      nextTimerId, pc, loopLog, now, videoTime, app, cycle, twin, mount>>

PreloadNext ==
    \/ (PreloadTick /\ UNCHANGED PreloadVars)
    \/ (PreloadEvent /\ UNCHANGED PreloadVars)
    \/ (PreloadTimeout /\ UNCHANGED PreloadVars)
    \/ (PreloadAllSettled /\ UNCHANGED PreloadVars)

\* time passes, a timer that is due runs, a promise reaction runs: the
\* browser's event loop sees to each; no event of an element has to come
SpecPreload ==
    /\ PreloadInit
    /\ [][PreloadNext]_vars
    /\ WF_vars(PreloadTick /\ UNCHANGED PreloadVars)
    /\ WF_vars(PreloadTimeout /\ UNCHANGED PreloadVars)
    /\ WF_vars(PreloadAllSettled /\ UNCHANGED PreloadVars)

\* what of a promise a later event or timer must leave alone
Settlement(p) == <<p.state, p.cause, p.settledAt, p.calls, p.settled>>

\* C40: the promise of preloadMeme settles exactly once and always settles:
\* it resolves on load/canplaythrough or when 7000 ms have passed without
\* an event, rejects only on the error event, an event after the settlement
\* changes nothing; preloadAllMemes resolves for every list of assets, also
\* when promises reject
C40_PreloadSettlesOnce ==
    /\ [](\A i \in DOMAIN calc.promises :
            LET p == calc.promises[i]
            IN  /\ p.calls <= 1
                /\ p.state # "pending" <=> p.calls = 1
                /\ p.state = "rejected" => p.cause = "error"
                /\ p.state = "fulfilled"
                      => p.cause \in {"load", "canplaythrough", "timeout"}
                /\ p.cause = "load" => p.type = "image"
                /\ p.cause = "canplaythrough" => p.type = "video"
                /\ p.cause = "timeout" => /\ p.settledAt >= TIMEOUT_MS
                                          /\ p.events = p.late)
    /\ [](calc.done => ~calc.threw)
    /\ [][\A i \in DOMAIN calc.promises :
            calc.promises[i].state # "pending"
               => Settlement(calc.promises[i])' = Settlement(calc.promises[i])
         ]_vars
    /\ <>[](/\ calc.done
            /\ \A i \in DOMAIN calc.promises :
                  calc.promises[i].state # "pending")

\* one promise resolved by its timer and an event came for it afterwards,
\* another rejected, and preloadAllMemes has resolved
C40_Witness ==
    /\ calc.op = "preloadAllMemes"
    /\ calc.done
    /\ calc.failures >= 1
    /\ \E i \in DOMAIN calc.promises :
          /\ calc.promises[i].cause = "timeout"
          /\ calc.promises[i].late >= 1

=============================================================================
